---- MODULE Spec2Model ----
(***************************************************************************)
(* Model of the serverless API of samuelgomeslima/my-ai-app: the provider  *)
(* key resolver, the /api/openai-settings store, the chat proxy and the    *)
(* transcription proxies, as state machines over the process environment,  *)
(* the on-disk key file and the request being served.                      *)
(*                                                                         *)
(* JavaScript strings are sequences of one-character strings.  The values  *)
(* undefined / null / non-string are one-element sequences holding a word, *)
(* which no real string (made of single characters) can equal.             *)
(***************************************************************************)
EXTENDS Integers, Sequences, FiniteSets, TLC

VARIABLES
    envKey,      \* process.env.OPENAI_API_KEY
    envToken,    \* process.env.OPENAI_PROXY_TOKEN (and its aliases)
    resolver,    \* which shared/openai module is deployed: "stored" or "env"
    storage,     \* the key file: NoFile or the record {apiKey, updatedAt}
    clock,       \* new Date(), as a counter
    pc,          \* "idle": no invocation running; "done": a handler returned
    req,         \* the request of the last invocation
    resp,        \* the response the handler returned
    calls,       \* the outbound provider calls the invocation made
    resolved,    \* what resolveApiKey returned to the invocation, if called
    disk,        \* the key file as the file system holds it, byte by byte
    procs,       \* the requests that work on the key file at the same time
    ui,          \* the state of a client screen
    flights,     \* the requests a client screen has in flight
    mic          \* the microphone streams and recorders a screen acquired

\* the API as one handler invocation at a time
server == <<envKey, envToken, resolver, storage, clock, pc, req, resp, calls, resolved>>
\* the key file under concurrent requests, and the client screens
apart == <<disk, procs, ui, flights, mic>>

vars == <<envKey, envToken, resolver, storage, clock, pc, req, resp, calls, resolved,
          disk, procs, ui, flights, mic>>

----------------------------------------------------------------------------
(* Bounds *)

MaxKeyLen == 5      \* longest key core submitted to the settings endpoint
MaxPad    == 1      \* most blanks around a submitted key
MaxClock  == 2      \* number of timestamps new Date() hands out
MaxSegments == 2    \* most segments in a provider transcript

----------------------------------------------------------------------------
(* JavaScript values *)

Undefined == <<"undefined">>
Null      == <<"null">>
NotString == <<"number">>      \* some value whose typeof is not 'string'
\* the key file is absent (fs.readFile fails with ENOENT)
NoFile    == [exists |-> FALSE, apiKey |-> <<"null">>, updatedAt |-> -1]
\* the key file holds something JSON.parse rejects
Unparseable == <<"not json">>
CorruptFile == [exists |-> TRUE, apiKey |-> Unparseable, updatedAt |-> -1]
\* what a read of the key file gives when readFile or JSON.parse throws
ReadThrew == [exists |-> FALSE, apiKey |-> <<"threw">>, updatedAt |-> -1]
Thrown    == <<"threw">>
\* the outcome of an invocation whose exception reaches the runtime
Escaped   == [status |-> 0, cors |-> FALSE, body |-> [shape |-> "uncaught"]]
NoRequest == [endpoint |-> "none"]
NoResponse == [status |-> 0]
NotCalled == <<"not called">>

\* nothing runs beside the handler invocations
NoDisk == [exists |-> FALSE, ino |-> 0, content |-> << >>]
NoScreen == [screen |-> "none"]
NoMic == [streams |-> << >>]
Apart0 ==
    /\ disk = NoDisk
    /\ procs = << >>
    /\ ui = NoScreen
    /\ flights = << >>
    /\ mic = NoMic

IsString(v) == v \notin {Undefined, Null, NotString, Unparseable, Thrown}

RECURSIVE Spaces(_)
Spaces(n) == IF n = 0 THEN << >> ELSE <<" ">> \o Spaces(n - 1)

RECURSIVE Stars(_)
Stars(n) == IF n = 0 THEN << >> ELSE <<"*">> \o Stars(n - 1)

RECURSIVE TrimStart(_)
TrimStart(s) ==
    IF s # << >> /\ Head(s) = " " THEN TrimStart(Tail(s)) ELSE s

RECURSIVE TrimEnd(_)
TrimEnd(s) ==
    IF s # << >> /\ s[Len(s)] = " "
    THEN TrimEnd(SubSeq(s, 1, Len(s) - 1))
    ELSE s

\* String.prototype.trim
Trim(s) == TrimEnd(TrimStart(s))

\* JavaScript truthiness of a string-or-undefined value
Truthy(v) == IsString(v) /\ v # << >>

RECURSIVE SeqsUpTo(_, _)
SeqsUpTo(S, n) ==
    IF n = 0 THEN {<< >>}
    ELSE LET shorter == SeqsUpTo(S, n - 1)
         IN  shorter \cup {Append(s, c) : s \in shorter, c \in S}

----------------------------------------------------------------------------
(* openai-settings.js *)

\* maskKey, with the tail it leaves readable widened to the whole key
maskKeyShowsAll(value) ==
    IF ~IsString(value) \/ Len(value) = 0 THEN Null ELSE value

maskKey(value) ==
    IF ~IsString(value) \/ Len(value) = 0 THEN Null
    ELSE IF Len(value) <= 4 THEN Stars(Len(value))
    ELSE LET visible == SubSeq(value, Len(value) - 3, Len(value))
             hidden  == Stars(Len(value) - Len(visible))
         IN  hidden \o visible

\* readStoredKey: null when the file is absent or holds no usable key; an
\* error other than ENOENT is thrown on
readStoredKey ==
    IF ~storage.exists THEN NoFile
    ELSE IF storage.apiKey = Unparseable THEN ReadThrew
    ELSE IF ~IsString(storage.apiKey) \/ Len(Trim(storage.apiKey)) = 0 THEN NoFile
    ELSE [exists |-> TRUE, apiKey |-> Trim(storage.apiKey), updatedAt |-> storage.updatedAt]

\* writeKey: the record written to the file
writeKey(apiKey) == [exists |-> TRUE, apiKey |-> apiKey, updatedAt |-> clock]

\* parseRequestBody: the parsed body, or "throws" when request.json() rejects
\* under an application/json content type
parseRequestBody(r) ==
    IF r.contentType = "none"
    THEN IF r.body.kind \in {"empty", "invalid"} THEN [kind |-> "object", apiKey |-> Undefined]
         ELSE r.body
    ELSE IF r.contentType = "application/json"
    THEN IF r.body.kind \in {"empty", "invalid"} THEN [kind |-> "throws", apiKey |-> Undefined]
         ELSE r.body
    ELSE IF r.body.kind \in {"empty", "invalid"} THEN [kind |-> "object", apiKey |-> Undefined]
         ELSE r.body

\* the apiKey the POST branch extracts from the parsed body
\* the variant that forgets to trim the submitted key
postedApiKeyUntrimmed(body) ==
    IF IsString(body.apiKey) THEN body.apiKey ELSE << >>

postedApiKey(body) ==
    IF IsString(body.apiKey) THEN Trim(body.apiKey) ELSE << >>

SettingsError(status, msg) ==
    [status |-> status, cors |-> TRUE,
     body |-> [shape |-> "error", message |-> msg]]

SettingsBody(configured, preview, updatedAt, message) ==
    [shape |-> "settings", configured |-> configured, preview |-> preview,
     updatedAt |-> updatedAt, message |-> message]

Options204 == [status |-> 204, cors |-> TRUE, body |-> [shape |-> "none"]]

\* a handler whose catch hands the exception on
SettingsRethrown == Escaped

\* the catch block of the handler
SettingsCaught ==
    SettingsError(500, "Internal server error while processing OpenAI settings.")

\* the handler of openai-settings.js (file-backed variant)
SettingsResult(r) ==
    IF r.method = "OPTIONS" THEN [resp |-> Options204, storage |-> storage, wrote |-> FALSE]
    ELSE IF r.method = "GET" THEN
        LET stored == readStoredKey IN
        IF stored = ReadThrew
        THEN [resp |-> SettingsCaught, storage |-> storage, wrote |-> FALSE]
        ELSE IF ~stored.exists
        THEN [resp |-> [status |-> 200, cors |-> TRUE,
                        body |-> SettingsBody(FALSE, Undefined, -1,
                                   "No OpenAI API key is currently stored.")],
              storage |-> storage, wrote |-> FALSE]
        ELSE [resp |-> [status |-> 200, cors |-> TRUE,
                        body |-> SettingsBody(TRUE, maskKey(stored.apiKey),
                                              stored.updatedAt, "")],
              storage |-> storage, wrote |-> FALSE]
    ELSE IF r.method = "POST" THEN
        LET body == parseRequestBody(r) IN
        IF body.kind \in {"throws", "null"}
        THEN [resp |-> SettingsCaught, storage |-> storage, wrote |-> FALSE]
        ELSE LET apiKey == postedApiKey(body) IN
             IF apiKey = << >>
             THEN [resp |-> SettingsError(400, "Missing apiKey. Provide a non-empty OpenAI API key in the request body."),
                   storage |-> storage, wrote |-> FALSE]
             ELSE LET record == writeKey(apiKey) IN
                  [resp |-> [status |-> 200, cors |-> TRUE,
                             body |-> SettingsBody(TRUE, maskKey(record.apiKey),
                                                   record.updatedAt, "")],
                   storage |-> record, wrote |-> TRUE]
    ELSE IF r.method = "DELETE" THEN
        [resp |-> [status |-> 200, cors |-> TRUE,
                   body |-> [shape |-> "deleted", configured |-> FALSE,
                             removed |-> storage.exists]],
         storage |-> NoFile, wrote |-> FALSE]
    ELSE [resp |-> SettingsError(405, "Method not allowed."),
          storage |-> storage, wrote |-> FALSE]

SettingsMethods == {"GET", "POST", "DELETE", "OPTIONS"}

KeyChars == {"k", "*"}

\* the strings a client may submit as apiKey: a core, blank-padded
SubmittedKeys ==
    {Spaces(l) \o core \o Spaces(r) :
        core \in SeqsUpTo(KeyChars, MaxKeyLen), l \in 0..MaxPad, r \in 0..MaxPad}

NoBody == [kind |-> "empty", apiKey |-> Undefined]

\* request bodies of a settings POST
SettingsBodies ==
    {[kind |-> k, apiKey |-> Undefined] : k \in {"empty", "invalid", "null", "scalar", "object"}}
    \cup {[kind |-> "object", apiKey |-> NotString]}
    \cup {[kind |-> "object", apiKey |-> s] : s \in SubmittedKeys}

SettingsContentTypes == {"none", "application/json", "text/plain"}

SettingsRequestsOver(bodies) ==
    {[endpoint |-> "settings", variant |-> "file", method |-> m,
      contentType |-> "none", body |-> NoBody] : m \in SettingsMethods \ {"POST"}}
    \cup {[endpoint |-> "settings", variant |-> "file", method |-> "POST",
           contentType |-> ct, body |-> b] : ct \in SettingsContentTypes, b \in bodies}

\* every body as application/json; the other content types with the bodies
\* that have no apiKey string or a short one
SettingsRequests ==
    {r \in SettingsRequestsOver(SettingsBodies) :
        \/ r.contentType = "application/json"
        \/ ~IsString(r.body.apiKey)
        \/ Len(r.body.apiKey) <= 2}

\* process.env.OPENAI_API_KEY: unset, blank, short, and long with blanks around
EnvKeys == {Undefined, <<" ">>, <<"e">>, <<" ", "s", "e", "c", "r", "e", "t", " ">>}

\* getEnvironmentApiKey (shared/openai): the trimmed variable, or null
getEnvironmentApiKey ==
    IF ~IsString(envKey) THEN Null
    ELSE IF Len(Trim(envKey)) > 0 THEN Trim(envKey) ELSE Null

\* the handler of the environment-only openai-settings variant
SettingsEnvResult(r) ==
    IF r.method = "OPTIONS" THEN Options204
    ELSE IF r.method # "GET"
    THEN SettingsError(405, "The OpenAI API key is managed via environment variables. Use a GET request to inspect the status.")
    ELSE LET environmentKey == getEnvironmentApiKey IN
         IF environmentKey = Null
         THEN [status |-> 200, cors |-> TRUE,
               body |-> SettingsBody(FALSE, Undefined, -1,
                          "OPENAI_API_KEY environment variable is not set. Configure it in your Azure Functions application settings.")]
         ELSE [status |-> 200, cors |-> TRUE,
               body |-> SettingsBody(TRUE, maskKey(environmentKey), -1,
                          "OPENAI_API_KEY environment variable is configured.")]

SettingsEnvRequests ==
    {[endpoint |-> "settings", variant |-> "env", method |-> m,
      contentType |-> "none", body |-> NoBody] : m \in SettingsMethods}

\* one invocation of the environment-only openai-settings handler
SettingsEnv(r) ==
    /\ pc = "idle"
    /\ resp' = SettingsEnvResult(r)
    /\ req' = r
    /\ pc' = "done"
    /\ calls' = << >>
    /\ resolved' = NotCalled
    /\ UNCHANGED <<envKey, envToken, resolver, storage, clock>>
    /\ UNCHANGED apart

\* one invocation of the openai-settings handler
Settings(r) ==
    /\ pc = "idle"
    /\ LET res == SettingsResult(r) IN
         /\ res.wrote => clock < MaxClock
         /\ resp' = res.resp
         /\ storage' = res.storage
         /\ clock' = IF res.wrote THEN clock + 1 ELSE clock
    /\ req' = r
    /\ pc' = "done"
    /\ calls' = << >>
    /\ resolved' = NotCalled
    /\ UNCHANGED <<envKey, envToken, resolver>>
    /\ UNCHANGED apart

\* the runtime delivers the response; the invocation is over
Return ==
    /\ pc = "done"
    /\ pc' = "idle"
    /\ req' = NoRequest
    /\ resp' = NoResponse
    /\ calls' = << >>
    /\ resolved' = NotCalled
    /\ UNCHANGED <<envKey, envToken, resolver, storage, clock>>
    /\ UNCHANGED apart

----------------------------------------------------------------------------
(* The settings endpoint on its own, with every submitted key *)

InitSettings ==
    /\ envKey \in EnvKeys
    /\ envToken = Undefined
    /\ resolver = "stored"
    /\ storage = NoFile
    /\ clock = 0
    /\ pc = "idle"
    /\ req = NoRequest
    /\ resp = NoResponse
    /\ calls = << >>
    /\ resolved = NotCalled
    /\ Apart0

NextSettings ==
    \/ \E r \in SettingsRequests : Settings(r)
    \/ \E r \in SettingsEnvRequests : SettingsEnv(r)
    \/ Return

SpecSettings == InitSettings /\ [][NextSettings]_vars

----------------------------------------------------------------------------
(* shared/openai: the provider key resolver, in its two versions *)

\* readStoredApiKey (file-backed version): the stored key, trimmed, or null;
\* the error of readStoredKeyRecord passes through
readStoredApiKey ==
    IF ~storage.exists THEN Null
    ELSE IF storage.apiKey = Unparseable THEN Thrown
    ELSE IF ~IsString(storage.apiKey) \/ Trim(storage.apiKey) = << >> THEN Null
    ELSE Trim(storage.apiKey)

\* resolveApiKey of the file-backed version
resolveApiKeyStored ==
    LET environmentKey == getEnvironmentApiKey IN
    IF environmentKey # Null THEN environmentKey
    ELSE IF readStoredApiKey = Thrown THEN Null
    ELSE readStoredApiKey

\* resolveApiKey of the environment-only version
resolveApiKeyEnv == getEnvironmentApiKey

\* resolveApiKey as the handlers import it from '../shared/openai'
resolveApiKey ==
    IF resolver = "stored" THEN resolveApiKeyStored ELSE resolveApiKeyEnv

----------------------------------------------------------------------------
(* The provider *)

\* the JSON object of a provider transcript: text, segments (an array of
\* segments, each given by its text, Null for a segment that is no object),
\* duration and language
PlainTranscript ==
    [text |-> <<"h">>, segments |-> [isArray |-> FALSE, items |-> << >>],
     duration |-> "3.2", language |-> <<"e", "n">>]

\* what a provider call comes to: fetch throws, or a response arrives; data
\* is the parsed object when the body is one
NetworkFailure == [kind |-> "network", status |-> 0, body |-> "none", data |-> PlainTranscript]
NoOutcome == [kind |-> "none", status |-> 0, body |-> "none", data |-> PlainTranscript]

ProviderStatuses == {200, 401, 500}

\* body of a provider response: a JSON object, JSON null, text, nothing
ProviderBodies == {"json", "null", "text", "empty"}

Outcomes ==
    {NetworkFailure}
    \cup {[kind |-> "response", status |-> st, body |-> b, data |-> PlainTranscript] :
            st \in ProviderStatuses, b \in ProviderBodies}

\* Response.ok
Ok(o) == o.status >= 200 /\ o.status <= 299

\* response.json() resolves (it rejects on text and on an empty body)
JsonParses(o) == o.body \in {"json", "null"}

\* { error: { message } }, with the ok flag some handlers add
Envelope(status, msg, cors) ==
    [status |-> status, cors |-> cors,
     body |-> [shape |-> "error.message", message |-> msg]]

\* the provider's parsed body handed back as the response body
PassThrough(status, o, cors) ==
    [status |-> status, cors |-> cors,
     body |-> [shape |-> "provider", data |-> o.body]]

----------------------------------------------------------------------------
(* The chat handlers *)

\* JSON values of the fields of a chat request body, by their source text
JsArrays  == {"[]", "[{role:user,content:hi}]"}
JsNumbers == {"0", "64", "0.6"}
JsObjects == {"{type:json_object}"}
JsStrings == {"'hi'", "'hot'", "'64'", "'json'", "'gpt-4'"}

IsArray(v)  == v \in JsArrays
IsNumber(v) == v \in JsNumbers
\* value && typeof value === 'object'
IsTruthyObject(v) == v \in JsObjects \cup JsArrays

ChatModel == "gpt-4o-mini"
DefaultTemperature == "0.6"

\* the body parsed by request.json(), then `body ?? {}` destructured
ChatFields(r) ==
    IF r.body.kind = "object" THEN r.body
    ELSE [kind |-> "object", messages |-> "undefined", temperature |-> "undefined",
          max_tokens |-> "undefined", response_format |-> "undefined",
          model |-> "undefined"]

\* a payload that hands every inbound field on, the model included
ChatPayloadForwardAll(r) ==
    LET b == ChatFields(r) IN
    [model |-> IF b.model = "undefined" THEN ChatModel ELSE b.model,
     messages |-> b.messages,
     temperature |-> IF b.temperature = "undefined" THEN DefaultTemperature ELSE b.temperature,
     max_tokens |-> b.max_tokens,
     response_format |-> b.response_format]

\* the payload of the handler with resolveApiKey
ChatPayload(r) ==
    LET b == ChatFields(r) IN
    [model |-> ChatModel,
     messages |-> b.messages,
     temperature |-> IF b.temperature = "undefined" THEN DefaultTemperature ELSE b.temperature,
     max_tokens |-> IF IsNumber(b.max_tokens) THEN b.max_tokens ELSE "undefined",
     response_format |-> IF IsTruthyObject(b.response_format) THEN b.response_format ELSE "undefined"]

\* the payload of the handler of api/functions/chat.js
ChatPayloadBasic(r) ==
    LET b == ChatFields(r) IN
    [model |-> ChatModel,
     messages |-> b.messages,
     temperature |-> IF b.temperature = "undefined" THEN DefaultTemperature ELSE b.temperature,
     max_tokens |-> "undefined",
     response_format |-> "undefined"]

\* a key lookup that hands on an empty string where there is no key
ChatApiKeyUnchecked(v) ==
    IF v = "resolve"
    THEN IF resolveApiKey = Null THEN << >> ELSE resolveApiKey
    ELSE IF IsString(envKey) THEN envKey ELSE << >>

\* the key the chat handler works with: resolveApiKey, or the variable as read
\* at module load
ChatApiKey(v) ==
    IF v = "resolve" THEN resolveApiKey
    ELSE IF Truthy(envKey) THEN envKey ELSE Null

ChatCors(v) == v = "resolve"

\* a validation that only asks for messages to be present
ChatValidateLax(r) ==
    IF r.body.kind = "invalid" THEN "Invalid JSON payload in request body."
    ELSE IF ChatFields(r).messages = "undefined"
    THEN "The request body must include a \"messages\" array."
    ELSE "ok"

\* the validation that lets a body through to the provider
ChatValidate(r) ==
    IF r.body.kind = "invalid" THEN "Invalid JSON payload in request body."
    ELSE IF ~IsArray(ChatFields(r).messages)
    THEN "The request body must include a \"messages\" array."
    ELSE "ok"

\* a handler that tries again when the provider fails
ProviderCallsRetry(call, o) ==
    IF Ok(o) THEN <<call @@ [reply |-> o]>>
    ELSE <<call @@ [reply |-> o], call @@ [reply |-> o]>>

\* the outbound calls of an invocation that got as far as the provider:
\* one fetch, whatever comes of it
ProviderCalls(call, o) == <<call @@ [reply |-> o]>>

\* what the chat handlers make of the provider's answer
ChatReply(v, o) ==
    IF o.kind = "network" \/ ~JsonParses(o)
    THEN Envelope(500, "Unable to contact the AI service right now. Please try again later.", ChatCors(v))
    ELSE IF ~Ok(o) THEN PassThrough(o.status, o, ChatCors(v))
    ELSE PassThrough(200, o, ChatCors(v))

\* the chat handler; v = "resolve" is the one with resolveApiKey and CORS,
\* v = "basic" the one of api/functions/chat.js
ChatResult(v, r, o) ==
    LET apiKey == ChatApiKey(v)
        res    == IF v = "resolve" THEN apiKey ELSE NotCalled
    IN
    IF v = "resolve" /\ r.method = "OPTIONS"
    THEN [resp |-> Options204, calls |-> << >>, resolved |-> NotCalled]
    ELSE IF apiKey = Null
    THEN [resp |-> Envelope(500, "The OpenAI API key is not configured on the server.", ChatCors(v)),
          calls |-> << >>, resolved |-> res]
    ELSE IF ChatValidate(r) # "ok"
    THEN [resp |-> Envelope(400, ChatValidate(r), ChatCors(v)),
          calls |-> << >>, resolved |-> res]
    ELSE LET payload == IF v = "resolve" THEN ChatPayload(r) ELSE ChatPayloadBasic(r)
             call == [url |-> "chat/completions", authorization |-> apiKey,
                      payload |-> payload]
         IN [resp |-> ChatReply(v, o), calls |-> ProviderCalls(call, o), resolved |-> res]

\* the provider is reached only by an invocation the handler does not refuse
ChatOutcomes(v, r) ==
    IF ChatResult(v, r, NetworkFailure).calls = << >> THEN {NoOutcome} ELSE Outcomes

ChatVariants == {"resolve", "basic"}

ChatMethods(v) == IF v = "resolve" THEN {"POST", "OPTIONS"} ELSE {"POST"}

ChatBodies ==
    {[kind |-> k, messages |-> "undefined", temperature |-> "undefined",
      max_tokens |-> "undefined", response_format |-> "undefined", model |-> "undefined"] :
        k \in {"invalid", "null", "scalar"}}
    \cup [kind : {"object"},
          messages : {"undefined", "'hi'", "{type:json_object}", "[]", "[{role:user,content:hi}]"},
          temperature : {"undefined", "null", "0", "'hot'"},
          max_tokens : {"undefined", "64", "'64'"},
          response_format : {"undefined", "null", "{type:json_object}", "'json'"},
          model : {"undefined", "'gpt-4'"}]

ChatRequests(v) ==
    {[endpoint |-> "chat", variant |-> v, method |-> "POST", body |-> b] : b \in ChatBodies}
    \cup {[endpoint |-> "chat", variant |-> v, method |-> m, body |-> b] :
            m \in ChatMethods(v) \ {"POST"},
            b \in {x \in ChatBodies : x.kind = "invalid"}}

\* one invocation of a chat handler
Chat(v, r) ==
    /\ pc = "idle"
    /\ \E o \in ChatOutcomes(v, r) :
         LET res == ChatResult(v, r, o) IN
           /\ resp' = res.resp
           /\ calls' = res.calls
           /\ resolved' = res.resolved
           /\ req' = r
    /\ pc' = "done"
    /\ UNCHANGED <<envKey, envToken, resolver, storage, clock>>
    /\ UNCHANGED apart

----------------------------------------------------------------------------
(* The transcription handlers without proxy token *)

TranscribeModel == "gpt-4o-mini-transcribe"

\* the multipart form of a transcription request: it does not parse, it has
\* no file field, its file cannot be read, or it holds a readable file
TranscribeForms == {"unparseable", "nofile", "unreadable", "file"}

\* the uploaded File: its declared type ("undefined" when it is no string),
\* its name and, where the runtime gives one, its filename
PlainFile == [type |-> "audio/webm", name |-> <<"c", ".", "w", "e", "b", "m">>,
              filename |-> Undefined]

\* String.prototype.toLowerCase
ToLowerCase(str) ==
    LET UpperCase == <<"A", "B", "C", "D", "E", "F", "G", "H", "I", "J", "K", "L", "M",
                       "N", "O", "P", "Q", "R", "S", "T", "U", "V", "W", "X", "Y", "Z">>
        LowerCase == <<"a", "b", "c", "d", "e", "f", "g", "h", "i", "j", "k", "l", "m",
                       "n", "o", "p", "q", "r", "s", "t", "u", "v", "w", "x", "y", "z">>
    IN  [i \in 1..Len(str) |->
            IF \E k \in 1..Len(UpperCase) : UpperCase[k] = str[i]
            THEN LowerCase[CHOOSE k \in 1..Len(UpperCase) : UpperCase[k] = str[i]]
            ELSE str[i]]

\* String.prototype.endsWith
EndsWith(str, suffix) ==
    /\ Len(suffix) <= Len(str)
    /\ SubSeq(str, Len(str) - Len(suffix) + 1, Len(str)) = suffix

\* extensionMimeMap of transcribe.js, in insertion order
extensionMimeMap ==
    <<[extension |-> <<".", "a", "a", "c">>, mime |-> "audio/aac"],
      [extension |-> <<".", "a", "i", "f">>, mime |-> "audio/aiff"],
      [extension |-> <<".", "a", "i", "f", "f">>, mime |-> "audio/aiff"],
      [extension |-> <<".", "a", "m", "r">>, mime |-> "audio/amr"],
      [extension |-> <<".", "c", "a", "f">>, mime |-> "audio/x-caf"],
      [extension |-> <<".", "f", "l", "a", "c">>, mime |-> "audio/flac"],
      [extension |-> <<".", "m", "4", "a">>, mime |-> "audio/mp4"],
      [extension |-> <<".", "m", "p", "3">>, mime |-> "audio/mpeg"],
      [extension |-> <<".", "m", "p", "4">>, mime |-> "audio/mp4"],
      [extension |-> <<".", "o", "g", "a">>, mime |-> "audio/ogg"],
      [extension |-> <<".", "o", "g", "g">>, mime |-> "audio/ogg"],
      [extension |-> <<".", "o", "p", "u", "s">>, mime |-> "audio/opus"],
      [extension |-> <<".", "w", "a", "v">>, mime |-> "audio/wav"],
      [extension |-> <<".", "w", "e", "b", "m">>, mime |-> "audio/webm"],
      [extension |-> <<".", "3", "g", "p">>, mime |-> "audio/3gpp"]>>

\* extensionMimeMap of the SDK-based handler with determineFileMetadata
extensionMimeMapSdk ==
    <<[extension |-> <<".", "a", "a", "c">>, mime |-> "audio/aac"],
      [extension |-> <<".", "a", "i", "f">>, mime |-> "audio/aiff"],
      [extension |-> <<".", "a", "i", "f", "f">>, mime |-> "audio/aiff"],
      [extension |-> <<".", "a", "m", "r">>, mime |-> "audio/amr"],
      [extension |-> <<".", "c", "a", "f">>, mime |-> "audio/x-caf"],
      [extension |-> <<".", "f", "l", "a", "c">>, mime |-> "audio/flac"],
      [extension |-> <<".", "m", "4", "a">>, mime |-> "audio/mp4"],
      [extension |-> <<".", "m", "p", "3">>, mime |-> "audio/mpeg"],
      [extension |-> <<".", "m", "p", "4">>, mime |-> "audio/mp4"],
      [extension |-> <<".", "o", "g", "a">>, mime |-> "audio/ogg"],
      [extension |-> <<".", "o", "g", "g">>, mime |-> "audio/ogg"],
      [extension |-> <<".", "o", "p", "u", "s">>, mime |-> "audio/ogg"],
      [extension |-> <<".", "w", "a", "v">>, mime |-> "audio/wav"],
      [extension |-> <<".", "w", "e", "b", "m">>, mime |-> "audio/webm"],
      [extension |-> <<".", "3", "g", "p">>, mime |-> "audio/3gpp"],
      [extension |-> <<".", "w", "a", "p", "t", "t">>, mime |-> "audio/ogg"]>>

mimeFallbackExtension ==
    <<[mime |-> "audio/3gpp", extension |-> <<".", "3", "g", "p">>],
      [mime |-> "audio/aac", extension |-> <<".", "a", "a", "c">>],
      [mime |-> "audio/aiff", extension |-> <<".", "a", "i", "f", "f">>],
      [mime |-> "audio/amr", extension |-> <<".", "a", "m", "r">>],
      [mime |-> "audio/flac", extension |-> <<".", "f", "l", "a", "c">>],
      [mime |-> "audio/mpeg", extension |-> <<".", "m", "p", "3">>],
      [mime |-> "audio/mp4", extension |-> <<".", "m", "4", "a">>],
      [mime |-> "audio/ogg", extension |-> <<".", "o", "g", "g">>],
      [mime |-> "audio/opus", extension |-> <<".", "o", "p", "u", "s">>],
      [mime |-> "audio/wav", extension |-> <<".", "w", "a", "v">>],
      [mime |-> "audio/webm", extension |-> <<".", "w", "e", "b", "m">>],
      [mime |-> "audio/x-caf", extension |-> <<".", "c", "a", "f">>]>>

\* mimeFallbackExtension[mimeType] ?? '.webm'
FallbackExtension(mimeType) ==
    IF \E i \in 1..Len(mimeFallbackExtension) : mimeFallbackExtension[i].mime = mimeType
    THEN mimeFallbackExtension[
            CHOOSE i \in 1..Len(mimeFallbackExtension) :
                mimeFallbackExtension[i].mime = mimeType].extension
    ELSE <<".", "w", "e", "b", "m">>

\* index of the entry find() returns over the pairs sorted by falling length
\* of the extension (the sort is stable), 0 when none matches
FindLongest(map, name) ==
    LET Matches(i) == EndsWith(name, map[i].extension)
        Before(i, j) == \/ Len(map[i].extension) > Len(map[j].extension)
                        \/ Len(map[i].extension) = Len(map[j].extension) /\ i <= j
    IN  IF \E i \in 1..Len(map) : Matches(i)
        THEN CHOOSE i \in 1..Len(map) :
                Matches(i) /\ \A j \in 1..Len(map) : Matches(j) => Before(i, j)
        ELSE 0

\* index of the entry find() returns over the keys in insertion order
FindFirst(map, name) ==
    LET Matches(i) == EndsWith(name, map[i].extension) IN
    IF \E i \in 1..Len(map) : Matches(i)
    THEN CHOOSE i \in 1..Len(map) : Matches(i) /\ \A j \in 1..(i - 1) : ~Matches(j)
    ELSE 0

\* the name given when the upload has none
SafeName(providedName, extension) ==
    IF Trim(providedName) # << >> THEN providedName
    ELSE <<"audio-upload">> \o extension

\* determineFileMetadata of transcribe.js
determineFileMetadata(file) ==
    LET providedType == IF file.type \notin {"undefined", "", "application/octet-stream"}
                        THEN file.type ELSE "null"
        providedName == IF IsString(file.name) /\ Len(file.name) > 0 THEN file.name
                        ELSE IF IsString(file.filename) /\ Len(file.filename) > 0
                        THEN file.filename
                        ELSE << >>
        matched == FindLongest(extensionMimeMap, ToLowerCase(providedName))
        inferredType == IF providedType # "null" THEN providedType
                        ELSE IF matched # 0 THEN extensionMimeMap[matched].mime
                        ELSE "null"
        mimeType == IF inferredType # "null" THEN inferredType ELSE "audio/webm"
        fallbackExtension == IF matched # 0 THEN extensionMimeMap[matched].extension
                             ELSE FallbackExtension(mimeType)
    IN  [mimeType |-> mimeType, fileName |-> SafeName(providedName, fallbackExtension)]

\* determineFileMetadata of the SDK-based handler that has one
determineFileMetadataSdk(file) ==
    LET providedType == IF file.type \notin {"undefined", ""} THEN file.type ELSE "null"
        providedName == IF IsString(file.name) THEN file.name ELSE << >>
        matched == FindFirst(extensionMimeMapSdk, ToLowerCase(providedName))
        inferredType == IF providedType # "null" THEN providedType
                        ELSE IF matched # 0 THEN extensionMimeMapSdk[matched].mime
                        ELSE "null"
        mimeType == IF inferredType # "null" THEN inferredType ELSE "audio/webm"
        fallbackExtension == IF matched # 0 THEN extensionMimeMapSdk[matched].extension
                             ELSE FallbackExtension(mimeType)
    IN  [mimeType |-> mimeType, fileName |-> SafeName(providedName, fallbackExtension)]

\* name and type of the file part sent to the provider; "fetch" is
\* transcribe.js, "p003" the SDK-based handler with determineFileMetadata,
\* "sdk" api/transcribe/index.js
FilePart(v, file) ==
    IF v = "fetch" THEN determineFileMetadata(file)
    ELSE IF v = "p003" THEN determineFileMetadataSdk(file)
    ELSE \* toFile(typedArray, file.name || 'audio.webm', { type: file.type || 'audio/webm' })
         [mimeType |-> IF file.type \notin {"undefined", ""} THEN file.type ELSE "audio/webm",
          fileName |-> IF IsString(file.name) /\ Len(file.name) > 0 THEN file.name
                       ELSE <<"audio.webm">>]

\* buildOpenAiFormData: the form sent to the provider
buildOpenAiFormData(r) ==
    [model |-> TranscribeModel, response_format |-> "verbose_json",
     file |-> FilePart(r.variant, r.file)]

\* the text the handlers substitute for an empty transcript
NoSpeech == <<"No speech was detected in the clip.">>

\* JSON numbers for which Number.isFinite holds
JsFiniteNumbers == {"3.2"}

toSafeNumber(value) == IF value \in JsFiniteNumbers THEN value ELSE "null"

toSafeString(value) ==
    IF ~IsString(value) THEN Null
    ELSE IF Len(Trim(value)) > 0 THEN Trim(value) ELSE Null

\* Array.prototype.join(' ')
RECURSIVE JoinSpace(_)
JoinSpace(texts) ==
    IF texts = << >> THEN << >>
    ELSE IF Len(texts) = 1 THEN texts[1]
    ELSE texts[1] \o <<" ">> \o JoinSpace(Tail(texts))

readSegmentsText(segments) ==
    IF ~segments.isArray THEN << >>
    ELSE LET texts == [i \in 1..Len(segments.items) |->
                         IF IsString(segments.items[i]) THEN Trim(segments.items[i])
                         ELSE << >>]
             NonEmpty(t) == t # << >>
         IN  Trim(JoinSpace(SelectSeq(texts, NonEmpty)))

TranscriptBody(text, duration, language) ==
    [shape |-> "transcript", text |-> text, duration |-> duration, language |-> language]

\* the 200 body of transcribe.js
TranscriptOf(data) ==
    LET safeText == toSafeString(data.text)
        transcriptText == IF safeText # Null THEN safeText
                          ELSE readSegmentsText(data.segments)
    IN  TranscriptBody(IF transcriptText # << >> THEN transcriptText ELSE NoSpeech,
                       toSafeNumber(data.duration),
                       toSafeString(data.language))

\* segment.text of a segment that is null throws
SdkFallbackThrows(segments) ==
    segments.isArray /\ \E i \in 1..Len(segments.items) : segments.items[i] = Null

\* the 200 body of the SDK-based handlers: value ?? fallback
SdkTranscriptOf(data) ==
    LET \* segments.map((segment) => segment.text).join(' '); join writes
        \* nothing for an undefined text
        fallbackText == IF ~data.segments.isArray THEN << >>
                        ELSE JoinSpace([i \in 1..Len(data.segments.items) |->
                                          IF data.segments.items[i] = Undefined THEN << >>
                                          ELSE data.segments.items[i]])
    IN
    TranscriptBody(IF data.text \in {Undefined, Null} THEN fallbackText
                   ELSE data.text,
                   IF data.duration \in {"undefined", "null"} THEN "null" ELSE data.duration,
                   IF data.language \in {Undefined, Null} THEN Null ELSE data.language)

\* what transcribe.js makes of the provider's answer
TranscribeReply(o) ==
    IF o.kind = "network"
    THEN Envelope(500, "Unable to contact the AI transcription service right now. Please try again later.", TRUE)
    ELSE IF ~Ok(o)
    THEN IF o.body = "json" THEN PassThrough(o.status, o, TRUE)
         ELSE IF o.body = "empty"
         THEN Envelope(o.status, "OpenAI API returned an error response.", TRUE)
         ELSE Envelope(o.status, "<the provider's text>", TRUE)
    ELSE IF o.body # "json"
    THEN Envelope(502, "The AI transcription service returned an empty response.", TRUE)
    ELSE [status |-> 200, cors |-> TRUE, body |-> TranscriptOf(o.data)]

\* the handler of transcribe.js
TranscribeResult(r, o) ==
    IF r.method = "OPTIONS"
    THEN [resp |-> Options204, calls |-> << >>, resolved |-> NotCalled]
    ELSE LET apiKey == resolveApiKey IN
    IF apiKey = Null
    THEN [resp |-> Envelope(500, "The OpenAI API key is not configured on the server.", TRUE),
          calls |-> << >>, resolved |-> apiKey]
    ELSE IF r.form = "unparseable"
    THEN [resp |-> Envelope(400, "Unable to read uploaded audio file.", TRUE),
          calls |-> << >>, resolved |-> apiKey]
    ELSE IF r.form = "nofile"
    THEN [resp |-> Envelope(400, "No audio file was provided in the \"file\" field.", TRUE),
          calls |-> << >>, resolved |-> apiKey]
    ELSE IF r.form = "unreadable"
    THEN [resp |-> Envelope(400, "The uploaded audio file could not be processed.", TRUE),
          calls |-> << >>, resolved |-> apiKey]
    ELSE LET call == [url |-> "audio/transcriptions", authorization |-> apiKey,
                      payload |-> buildOpenAiFormData(r)]
         IN [resp |-> TranscribeReply(o), calls |-> ProviderCalls(call, o),
             resolved |-> apiKey]

\* error.message of a caught exception, as the SDK-based handlers copy it
\* into the response
ExceptionText == "<the exception's message>"

\* { error: 'text' }, the body of the SDK-based handlers' failures
ErrorString(status, msg) ==
    [status |-> status, cors |-> TRUE, body |-> [shape |-> "error", message |-> msg]]

\* the SDK-based handler of api/transcribe/index.js; the client's
\* transcriptions.create resolves on a 2xx JSON answer and throws otherwise
TranscribeSdkResult(r, o) ==
    IF r.method = "OPTIONS"
    THEN [resp |-> Options204, calls |-> << >>, resolved |-> NotCalled]
    ELSE IF ~Truthy(envKey)
    THEN [resp |-> ErrorString(500, "OPENAI_API_KEY is not configured on the server."),
          calls |-> << >>, resolved |-> NotCalled]
    ELSE IF r.form = "unparseable"
    THEN [resp |-> ErrorString(400, "Unable to read uploaded audio file."),
          calls |-> << >>, resolved |-> NotCalled]
    ELSE IF r.form = "nofile"
    THEN [resp |-> ErrorString(400, "No audio file was provided in the \"file\" field."),
          calls |-> << >>, resolved |-> NotCalled]
    ELSE IF r.form = "unreadable"
    THEN [resp |-> ErrorString(500, ExceptionText),
          calls |-> << >>, resolved |-> NotCalled]
    ELSE LET call == [url |-> "audio/transcriptions", authorization |-> envKey,
                      payload |-> buildOpenAiFormData(r)]
         IN IF o.kind = "response" /\ Ok(o) /\ o.body = "json"
               /\ ~SdkFallbackThrows(o.data.segments)
            THEN [resp |-> [status |-> 200, cors |-> TRUE,
                            body |-> SdkTranscriptOf(o.data)],
                  calls |-> ProviderCalls(call, o), resolved |-> NotCalled]
            ELSE [resp |-> ErrorString(500, ExceptionText),
                  calls |-> ProviderCalls(call, o), resolved |-> NotCalled]

TranscribeVariants == {"fetch", "sdk", "p003"}

TranscribeResultOf(v, r, o) ==
    IF v = "fetch" THEN TranscribeResult(r, o) ELSE TranscribeSdkResult(r, o)

TranscribeOutcomes(v, r) ==
    IF TranscribeResultOf(v, r, NetworkFailure).calls = << >> THEN {NoOutcome} ELSE Outcomes

TranscribeRequests(v) ==
    {[endpoint |-> "transcribe", variant |-> v, method |-> m, form |-> f,
      file |-> PlainFile] :
        m \in {"POST", "OPTIONS"}, f \in TranscribeForms}

\* one invocation of a transcription handler without proxy token, the
\* provider's outcome drawn from outcomes
TranscribeOver(v, r, outcomes) ==
    /\ pc = "idle"
    /\ \E o \in outcomes :
         LET res == TranscribeResultOf(v, r, o) IN
           /\ resp' = res.resp
           /\ calls' = res.calls
           /\ resolved' = res.resolved
    /\ req' = r
    /\ pc' = "done"
    /\ UNCHANGED <<envKey, envToken, resolver, storage, clock>>
    /\ UNCHANGED apart

Transcribe(v, r) == TranscribeOver(v, r, TranscribeOutcomes(v, r))

----------------------------------------------------------------------------
(* The transcribe handlers on their own, with every provider transcript *)

\* the transcripts a provider may answer with: text, segments (no array, or
\* an array of segment texts), duration and language
ProviderTranscripts ==
    LET SegmentItems == {Null, Undefined, << >>, <<" ", "a">>, <<"b">>} IN
    [text : {Undefined, NotString, << >>, <<" ">>, <<"h">>, <<" ", "h", " ">>},
     segments : {[isArray |-> FALSE, items |-> << >>]}
                \cup {[isArray |-> TRUE, items |-> items] :
                        items \in SeqsUpTo(SegmentItems, MaxSegments)},
     duration : {"undefined", "3.2", "NaN", "'3'"},
     language : {Undefined, <<" ">>, <<"e", "n">>}]

TranscriptOutcomes ==
    {[kind |-> "response", status |-> 200, body |-> "json", data |-> d] :
        d \in ProviderTranscripts}

\* POST requests with a readable file, to every transcribe handler
UploadRequests(files) ==
    {[endpoint |-> "transcribe", variant |-> v, method |-> "POST", form |-> "file",
      file |-> f] : v \in TranscribeVariants, f \in files}

\* uploads by declared type, name and filename
UploadFiles ==
    [type : {"undefined", "", "application/octet-stream", "audio/wav", "text/plain"},
     name : {Undefined, << >>, <<" ">>,
             <<"c", ".", "o", "p", "u", "s">>, <<"C", ".", "O", "P", "U", "S">>,
             <<"c", ".", "O", "p", "U", "s">>, <<"c", ".", "w", "a", "v">>,
             <<"c", ".", "a", "i", "f", "f">>, <<"c", ".", "w", "a", "p", "t", "t">>,
             <<"c", ".", "t", "x", "t">>, <<"o", "p", "u", "s">>},
     filename : {Undefined, <<"f", ".", "O", "G", "G">>}]

InitTranscript ==
    /\ envKey = <<"k">>
    /\ envToken = Undefined
    /\ resolver \in {"stored", "env"}
    /\ storage = NoFile
    /\ clock = 0
    /\ pc = "idle"
    /\ req = NoRequest
    /\ resp = NoResponse
    /\ calls = << >>
    /\ resolved = NotCalled
    /\ Apart0

NextTranscript ==
    \/ \E r \in UploadRequests({PlainFile}) :
            TranscribeOver(r.variant, r, TranscriptOutcomes)
    \/ \E r \in UploadRequests(UploadFiles) :
            TranscribeOver(r.variant, r,
                           {o \in TranscriptOutcomes : o.data = PlainTranscript})
    \/ Return

SpecTranscript == InitTranscript /\ [][NextTranscript]_vars

----------------------------------------------------------------------------
(* The transcription handlers behind a proxy token *)

\* "proxy" is functions/transcription-proxy.js; "p008" the app.http handler
\* with shared/utils; "p006", "p7a", "p7b", "p7c" the module.exports handlers
\* with _shared/utils
ProxyVariants == {"proxy", "p008", "p006", "p7a", "p7b", "p7c"}

\* the handler checks the token before it looks for the provider key
TokenFirst(v) == v \in {"proxy", "p7c"}
\* the handler answers OPTIONS itself
HandlesOptions(v) == v \in {"proxy", "p008", "p7b", "p7c"}
\* the handler patches model / response_format into the multipart body
Splices(v) == v \in {"p7a", "p7b", "p7c"}
\* the response carries the CORS headers (jsonResponse of _shared/utils takes
\* no third argument, so respond() of p7b and p7c adds none)
ProxyCors(v) == v \in {"proxy", "p008"}

ProxyMethods(v) ==
    IF v \in {"proxy", "p008"} THEN {"GET", "POST", "OPTIONS"}
    ELSE {"GET", "POST", "OPTIONS", "PUT"}

\* PROXY_TOKEN / OPENAI_PROXY_TOKEN as the handler holds it
configuredToken(v) ==
    IF v = "proxy"
    THEN IF IsString(envToken) THEN Trim(envToken) ELSE << >>
    ELSE envToken

\* readProvidedToken of transcription-proxy.js: bearer token, then the
\* dedicated headers, then the query parameter
readProvidedToken(r) ==
    LET headerToken == IF Truthy(r.tokens.xOpenaiProxyToken) THEN r.tokens.xOpenaiProxyToken
                       ELSE r.tokens.xProxyToken
    IN
    IF Truthy(r.tokens.bearer) THEN Trim(r.tokens.bearer)
    ELSE IF IsString(headerToken) /\ Trim(headerToken) # << >> THEN Trim(headerToken)
    ELSE IF IsString(r.tokens.query) /\ Trim(r.tokens.query) # << >> THEN Trim(r.tokens.query)
    ELSE Null

\* getProvidedToken of shared/utils and of _shared/utils
getProvidedToken(r) ==
    IF Truthy(r.tokens.xApiKey) THEN r.tokens.xApiKey
    ELSE IF Truthy(r.tokens.xFunctionsKey) THEN r.tokens.xFunctionsKey
    ELSE Undefined

providedToken(v, r) ==
    IF v = "proxy" THEN readProvidedToken(r) ELSE getProvidedToken(r)

\* the provider key the handler works with
ProxyApiKey(v) ==
    IF TokenFirst(v) THEN resolveApiKey
    ELSE IF Truthy(envKey) THEN envKey ELSE Null

\* contentType.toLowerCase().startsWith('multipart/form-data')
IsMultipart(ct) == ct \in {"multipart/form-data", "Multipart/Form-Data; boundary=b"}
\* contentType.match(/boundary="?([^";]+)"?/i)
HasBoundary(ct) == ct = "Multipart/Form-Data; boundary=b"

ProxyContentTypes ==
    {"none", "application/json", "multipart/form-data", "Multipart/Form-Data; boundary=b"}

\* a request body: its length, whether it ends with the closing boundary,
\* and which of the parts name="model" and name="response_format" it has
EmptyBody == [empty |-> TRUE, closed |-> FALSE, model |-> FALSE, format |-> FALSE]

ProxyBodies ==
    {EmptyBody}
    \cup {[empty |-> FALSE, closed |-> FALSE, model |-> FALSE, format |-> FALSE]}
    \cup [empty : {FALSE}, closed : {TRUE}, model : BOOLEAN, format : BOOLEAN]

\* the body read by the handler is unusable: arrayBuffer() of length 0 in
\* transcription-proxy.js, no req.body in the module.exports handlers;
\* readBufferBody of shared/utils wraps even an empty ArrayBuffer in a Buffer
BodyMissing(v, r) == IF v = "p008" THEN FALSE ELSE r.body.empty

\* the multipart form that reaches the provider
ProxyPayload(v, r) ==
    [file |-> "inbound body",
     model |-> IF r.body.model THEN "inbound"
               ELSE IF Splices(v) THEN "whisper-1" ELSE "absent",
     response_format |-> IF r.body.format THEN "inbound"
                         ELSE IF Splices(v) THEN "json" ELSE "absent"]

ProxyEnvelope(v, status, msg) == Envelope(status, msg, ProxyCors(v))

\* the status for a missing token or key: 503 on GET, 500 on POST; the
\* missing token is a 503 on every method in transcription-proxy.js
TokenMissingStatus(v, r) == IF r.method = "GET" \/ v = "proxy" THEN 503 ELSE 500
KeyMissingStatus(v, r) == IF r.method = "GET" THEN 503 ELSE 500

TokenMissingMessage(v) ==
    IF v = "proxy" THEN "Server misconfiguration: missing transcription proxy token."
    ELSE "Server misconfiguration: missing OpenAI proxy token."

\* the three gates of a GET or POST, each with the response of its failure
KeyGate(v, r) ==
    [fails |-> ProxyApiKey(v) = Null,
     resp |-> ProxyEnvelope(v, KeyMissingStatus(v, r),
                            "The OpenAI API key is not configured on the server.")]

TokenConfiguredGate(v, r) ==
    [fails |-> ~Truthy(configuredToken(v)),
     resp |-> ProxyEnvelope(v, TokenMissingStatus(v, r), TokenMissingMessage(v))]

TokenMatchGate(v, r) ==
    [fails |-> ~Truthy(providedToken(v, r)) \/ providedToken(v, r) # configuredToken(v),
     resp |-> ProxyEnvelope(v, 401, "Unauthorized request.")]

\* the gates with the caller's token compared before the configuration is
\* looked at
ProxyGatesMatchFirst(v, r) ==
    IF TokenFirst(v)
    THEN <<TokenMatchGate(v, r), TokenConfiguredGate(v, r), KeyGate(v, r)>>
    ELSE <<KeyGate(v, r), TokenMatchGate(v, r), TokenConfiguredGate(v, r)>>

\* the gates in the order the handler goes through them
ProxyGates(v, r) ==
    IF TokenFirst(v)
    THEN <<TokenConfiguredGate(v, r), TokenMatchGate(v, r), KeyGate(v, r)>>
    ELSE <<KeyGate(v, r), TokenConfiguredGate(v, r), TokenMatchGate(v, r)>>

\* index of the first gate that fails, 0 when none does
FirstFailing(gates) ==
    IF \E i \in 1..Len(gates) : gates[i].fails
    THEN CHOOSE i \in 1..Len(gates) :
            gates[i].fails /\ \A j \in 1..(i - 1) : ~gates[j].fails
    ELSE 0

\* the checks on the upload, after the gates
ProxyUploadError(v, r) ==
    IF ~IsMultipart(r.contentType) THEN "Requests must be sent as multipart/form-data."
    ELSE IF BodyMissing(v, r) THEN "Request body is missing or invalid."
    ELSE IF Splices(v) /\ ~HasBoundary(r.contentType) THEN "Missing multipart boundary on request."
    ELSE IF Splices(v) /\ ~r.body.closed THEN "Invalid multipart request body."
    ELSE "ok"

\* what the proxy handlers make of the provider's answer
ProxyReply(v, o) ==
    IF o.kind = "network"
    THEN ProxyEnvelope(v, 500, "Unable to contact the transcription service right now.")
    ELSE IF ~JsonParses(o)
    THEN ProxyEnvelope(v, 502, "Unexpected response from the OpenAI transcription service.")
    ELSE IF ~Ok(o) THEN PassThrough(o.status, o, ProxyCors(v))
    ELSE PassThrough(200, o, ProxyCors(v))

ProxyReady(v) ==
    [status |-> 200, cors |-> ProxyCors(v),
     body |-> [shape |-> "ready", message |-> "Transcription proxy is ready."]]

\* a token-guarded transcription handler
ProxyResult(v, r, o) ==
    LET gates  == ProxyGates(v, r)
        failed == FirstFailing(gates)
        \* resolveApiKey runs only once the token gates are passed
        res    == IF TokenFirst(v) /\ (failed = 0 \/ failed = 3)
                  THEN resolveApiKey ELSE NotCalled
        none(x) == [resp |-> x, calls |-> << >>, resolved |-> NotCalled]
    IN
    IF r.method = "OPTIONS" /\ HandlesOptions(v) THEN none(Options204)
    ELSE IF r.method \notin {"GET", "POST"} /\ v # "proxy"
    THEN none(ProxyEnvelope(v, 405, "Method not allowed."))
    ELSE IF r.method \notin {"GET", "POST"} /\ (failed = 0 \/ failed = 3)
    THEN none(ProxyEnvelope(v, 405, "Method not allowed."))
    ELSE IF failed # 0
    THEN [resp |-> gates[failed].resp, calls |-> << >>, resolved |-> res]
    ELSE IF r.method = "GET"
    THEN [resp |-> ProxyReady(v), calls |-> << >>, resolved |-> res]
    ELSE IF ProxyUploadError(v, r) # "ok"
    THEN [resp |-> ProxyEnvelope(v, 400, ProxyUploadError(v, r)),
          calls |-> << >>, resolved |-> res]
    ELSE LET call == [url |-> "audio/transcriptions", authorization |-> ProxyApiKey(v),
                      payload |-> ProxyPayload(v, r)]
         IN [resp |-> ProxyReply(v, o), calls |-> ProviderCalls(call, o), resolved |-> res]

ProxyOutcomes(v, r) ==
    IF ProxyResult(v, r, NetworkFailure).calls = << >> THEN {NoOutcome} ELSE Outcomes

\* process.env.OPENAI_PROXY_TOKEN: unset, blank, set, set with a blank after
EnvTokens == {Undefined, << >>, <<" ">>, <<"t">>, <<"t", " ">>}

NoTokens ==
    [bearer |-> Undefined, xOpenaiProxyToken |-> Undefined, xProxyToken |-> Undefined,
     query |-> Undefined, xApiKey |-> Undefined, xFunctionsKey |-> Undefined]

TokenValues == {<< >>, <<"t">>, <<"x">>, <<" ", "t">>}

TokenFields(v) ==
    IF v = "proxy" THEN {"bearer", "xOpenaiProxyToken", "xProxyToken", "query"}
    ELSE {"xApiKey", "xFunctionsKey"}

\* the token-bearing parts of a request: none, one, or two of those the
\* handler reads
TokenInputs(v) ==
    {NoTokens}
    \cup {[NoTokens EXCEPT ![f] = t] : f \in TokenFields(v), t \in TokenValues}
    \cup {[NoTokens EXCEPT ![p[1]] = <<"t">>, ![p[2]] = <<"x">>] :
            p \in {q \in TokenFields(v) \X TokenFields(v) : q[1] # q[2]}}

FullBody == [empty |-> FALSE, closed |-> TRUE, model |-> TRUE, format |-> TRUE]

\* content type and body of a POST: every body as multipart with boundary,
\* an empty and a complete body under the other content types
ProxyUploads ==
    {[contentType |-> "Multipart/Form-Data; boundary=b", body |-> b] : b \in ProxyBodies}
    \cup {[contentType |-> ct, body |-> b] :
            ct \in ProxyContentTypes, b \in {EmptyBody, FullBody}}

ProxyRequestsOver(v, tokens, uploads) ==
    {[endpoint |-> "proxy", variant |-> v, method |-> m, tokens |-> t,
      contentType |-> "none", body |-> EmptyBody] :
        m \in ProxyMethods(v) \ {"POST"}, t \in tokens}
    \cup {[endpoint |-> "proxy", variant |-> v, method |-> "POST", tokens |-> t,
           contentType |-> u.contentType, body |-> u.body] : t \in tokens, u \in uploads}

\* one invocation of a token-guarded transcription handler
Proxy(v, r) ==
    /\ pc = "idle"
    /\ \E o \in ProxyOutcomes(v, r) :
         LET res == ProxyResult(v, r, o) IN
           /\ resp' = res.resp
           /\ calls' = res.calls
           /\ resolved' = res.resolved
    /\ req' = r
    /\ pc' = "done"
    /\ UNCHANGED <<envKey, envToken, resolver, storage, clock>>
    /\ UNCHANGED apart

\* a key file left by an earlier run of the settings endpoint
EarlierRecord == [exists |-> TRUE, apiKey |-> <<"s", "k", "-", "o", "l", "d">>, updatedAt |-> 0]

InitProxy ==
    /\ envKey \in EnvKeys \ {<<"e">>}
    /\ envToken \in EnvTokens
    /\ resolver \in {"stored", "env"}
    /\ storage \in {NoFile, EarlierRecord}
    /\ clock = 1
    /\ pc = "idle"
    /\ req = NoRequest
    /\ resp = NoResponse
    /\ calls = << >>
    /\ resolved = NotCalled
    /\ Apart0

ProxyInvocation(v) ==
    \E r \in ProxyRequestsOver(v, TokenInputs(v), ProxyUploads) : Proxy(v, r)

NextProxy ==
    \/ ProxyInvocation("proxy")
    \/ ProxyInvocation("p008")
    \/ ProxyInvocation("p006")
    \/ ProxyInvocation("p7a")
    \/ ProxyInvocation("p7b")
    \/ ProxyInvocation("p7c")
    \/ Return

SpecProxy == InitProxy /\ [][NextProxy]_vars

----------------------------------------------------------------------------
(* The chat endpoint with every request body, next to the settings store *)

SmallKeys == {<<"k">>, <<" ", "s", "k", "-", "a", "b", " ">>, <<" ">>}

SmallSettingsBodies ==
    {[kind |-> "object", apiKey |-> Undefined]}
    \cup {[kind |-> "object", apiKey |-> s] : s \in SmallKeys}

InitChat ==
    /\ envKey \in EnvKeys
    /\ envToken = Undefined
    /\ resolver \in {"stored", "env"}
    /\ storage = NoFile
    /\ clock = 0
    /\ pc = "idle"
    /\ req = NoRequest
    /\ resp = NoResponse
    /\ calls = << >>
    /\ resolved = NotCalled
    /\ Apart0

NextChat ==
    \/ \E r \in SettingsRequestsOver(SmallSettingsBodies) : Settings(r)
    \/ \E r \in ChatRequests("resolve") : Chat("resolve", r)
    \/ \E r \in ChatRequests("basic") : Chat("basic", r)
    \/ Return

SpecChat == InitChat /\ [][NextChat]_vars

----------------------------------------------------------------------------
(* The status handlers *)

\* "file" is functions/status.js, which also looks at the key file; "env" the
\* handler that reports the environment only; "plain" api/status/index.js
StatusVariants == {"file", "env", "plain"}

\* readStoredKeyRecord (file-backed shared/openai): the record, null, or the
\* error of the read
readStoredKeyRecord ==
    IF ~storage.exists THEN NoFile
    ELSE IF storage.apiKey = Unparseable THEN ReadThrew
    ELSE IF ~IsString(storage.apiKey) \/ Trim(storage.apiKey) = << >> THEN NoFile
    ELSE [exists |-> TRUE, apiKey |-> Trim(storage.apiKey), updatedAt |-> storage.updatedAt]

\* the 200 of a status handler
StatusOk(configured, source, message) ==
    [status |-> 200, cors |-> TRUE,
     body |-> [shape |-> "status", openaiConfigured |-> configured, source |-> source,
               message |-> message]]

\* the handler of status.js
StatusFileResult ==
    IF getEnvironmentApiKey # Null
    THEN StatusOk(TRUE, "environment",
                    "OpenAI API key is configured via environment variable.")
    ELSE LET \* the environment-only shared/openai exports no
             \* readStoredKeyRecord, and the call throws
             stored == IF resolver = "stored" THEN readStoredKeyRecord ELSE ReadThrew
         IN
         IF stored = ReadThrew
         THEN StatusOk(FALSE, "null",
                    "Unable to determine whether an OpenAI API key is stored on the server.")
         ELSE IF stored.exists
         THEN StatusOk(TRUE, "storage",
                    "OpenAI API key is stored securely on the server.")
         ELSE StatusOk(FALSE, "null",
                    "OpenAI API key is missing or empty on the server.")

\* the handler that reports the environment only
StatusEnvResult ==
    LET configured == getEnvironmentApiKey # Null IN
    StatusOk(configured, "environment",
               IF configured THEN "OPENAI_API_KEY environment variable is configured."
               ELSE "OPENAI_API_KEY environment variable is missing or empty on the server.")

\* getStatusPayload of api/status/index.js: no source field
StatusPlainResult ==
    LET apiKey == IF IsString(envKey) THEN Trim(envKey) ELSE << >>
        openaiConfigured == Len(apiKey) > 0
    IN StatusOk(openaiConfigured, "absent",
               IF openaiConfigured
               THEN "Server check: the OPENAI_API_KEY environment variable is configured."
               ELSE "Server check: the OPENAI_API_KEY environment variable is missing or empty.")

StatusResult(v, r) ==
    IF r.method = "OPTIONS" THEN Options204
    ELSE IF v = "file" THEN StatusFileResult
    ELSE IF v = "env" THEN StatusEnvResult
    ELSE StatusPlainResult

StatusRequests(v) ==
    {[endpoint |-> "status", variant |-> v, method |-> m] : m \in {"GET", "OPTIONS"}}

\* one invocation of a status handler
Status(v, r) ==
    /\ pc = "idle"
    /\ resp' = StatusResult(v, r)
    /\ req' = r
    /\ pc' = "done"
    /\ calls' = << >>
    /\ resolved' = NotCalled
    /\ UNCHANGED <<envKey, envToken, resolver, storage, clock>>
    /\ UNCHANGED apart

----------------------------------------------------------------------------
(* The API as a whole: settings, chat, transcription with and without token *)

\* a few chat bodies: unparseable, without messages, minimal, with every field
FewChatBodies ==
    {b \in ChatBodies :
        \/ b.kind = "invalid"
        \/ /\ b.kind = "object"
           /\ b.messages \in {"undefined", "[{role:user,content:hi}]"}
           /\ \/ /\ b.temperature = "undefined" /\ b.max_tokens = "undefined"
                 /\ b.response_format = "undefined" /\ b.model = "undefined"
              \/ /\ b.temperature = "0" /\ b.max_tokens = "64"
                 /\ b.response_format = "{type:json_object}" /\ b.model = "'gpt-4'"}

FewChatRequests(v) == {r \in ChatRequests(v) : r.body \in FewChatBodies}

\* the field in which a caller normally sends the proxy token
PrimaryTokenField(v) == IF v = "proxy" THEN "bearer" ELSE "xApiKey"

FewTokenInputs(v) ==
    {NoTokens} \cup {[NoTokens EXCEPT ![PrimaryTokenField(v)] = t] : t \in {<<"t">>, <<"x">>}}

FewProxyUploads ==
    {[contentType |-> "Multipart/Form-Data; boundary=b", body |-> FullBody],
     [contentType |-> "Multipart/Form-Data; boundary=b", body |-> EmptyBody],
     [contentType |-> "multipart/form-data",
      body |-> [empty |-> FALSE, closed |-> TRUE, model |-> FALSE, format |-> FALSE]],
     [contentType |-> "application/json", body |-> FullBody]}

FewProxyInvocation(v) ==
    \E r \in ProxyRequestsOver(v, FewTokenInputs(v), FewProxyUploads) : Proxy(v, r)

Init ==
    /\ envKey \in {Undefined, <<" ">>, <<" ", "s", "e", "c", "r", "e", "t", " ">>}
    /\ envToken \in {Undefined, <<"t">>}
    /\ resolver \in {"stored", "env"}
    /\ storage \in {NoFile, CorruptFile}
    /\ clock = 0
    /\ pc = "idle"
    /\ req = NoRequest
    /\ resp = NoResponse
    /\ calls = << >>
    /\ resolved = NotCalled
    /\ Apart0

Next ==
    \/ \E r \in SettingsRequestsOver(SmallSettingsBodies) : Settings(r)
    \/ \E r \in SettingsEnvRequests : SettingsEnv(r)
    \/ \E r \in FewChatRequests("resolve") : Chat("resolve", r)
    \/ \E r \in FewChatRequests("basic") : Chat("basic", r)
    \/ \E r \in TranscribeRequests("fetch") : Transcribe("fetch", r)
    \/ \E r \in TranscribeRequests("sdk") : Transcribe("sdk", r)
    \/ \E r \in TranscribeRequests("p003") : Transcribe("p003", r)
    \/ FewProxyInvocation("proxy")
    \/ FewProxyInvocation("p008")
    \/ FewProxyInvocation("p006")
    \/ FewProxyInvocation("p7a")
    \/ FewProxyInvocation("p7b")
    \/ FewProxyInvocation("p7c")
    \/ \E v \in StatusVariants : \E r \in StatusRequests(v) : Status(v, r)
    \/ Return

Spec == Init /\ [][Next]_vars

----------------------------------------------------------------------------
(* C3: what a settings response shows of the key *)

\* the key a settings response with a preview was computed from
PreviewedKey ==
    IF req.variant = "file" THEN storage.apiKey ELSE Trim(envKey)

HasPreview ==
    /\ pc = "done"
    /\ req.endpoint = "settings"
    /\ resp.body.shape = "settings"
    /\ resp.body.configured

Tail4(s) == SubSeq(s, IF Len(s) > 4 THEN Len(s) - 3 ELSE 1, Len(s))

\* the messages a settings response may carry; none is built from the key
SettingsMessages ==
    {"", "No OpenAI API key is currently stored.",
     "OPENAI_API_KEY environment variable is not set. Configure it in your Azure Functions application settings.",
     "OPENAI_API_KEY environment variable is configured.",
     "Internal server error while processing OpenAI settings.",
     "Missing apiKey. Provide a non-empty OpenAI API key in the request body.",
     "Method not allowed.",
     "The OpenAI API key is managed via environment variables. Use a GET request to inspect the status."}

NothingButPreview ==
    (pc = "done" /\ req.endpoint = "settings") =>
        /\ resp.body.shape \in {"settings", "error", "deleted", "none"}
        /\ resp.body.shape \in {"settings", "error"} => resp.body.message \in SettingsMessages
        /\ (resp.body.shape = "settings" /\ ~resp.body.configured) => resp.body.preview = Undefined

\* C3 as stated: in every /api/openai-settings response the preview has the
\* key's length, ends with the key's last 4 characters and is '*' elsewhere,
\* and the response never holds the raw key.
C3_AsStated ==
    /\ NothingButPreview
    /\ HasPreview =>
         LET k == PreviewedKey
             p == resp.body.preview
         IN  /\ Len(p) = Len(k)
             /\ Tail4(p) = Tail4(k)
             /\ \A i \in 1..(Len(k) - Len(Tail4(k))) : p[i] = "*"
             /\ p # k

\* C3 (amended): the preview has the key's length; for a key longer than 4
\* characters it ends with the key's last 4 characters and is '*' before
\* them, for a key of at most 4 characters it is '*' throughout; nothing
\* else in a settings response is built from the key, and the preview equals
\* the raw key only for a key that is already '*' in every masked position.
C3_Preview ==
    /\ NothingButPreview
    /\ HasPreview =>
         LET k == PreviewedKey
             p == resp.body.preview
             masked == IF Len(k) > 4 THEN 1..(Len(k) - 4) ELSE 1..Len(k)
         IN  /\ Len(p) = Len(k)
             /\ \A i \in masked : p[i] = "*"
             /\ \A i \in (1..Len(k)) \ masked : p[i] = k[i]
             /\ (p = k) => \A i \in masked : k[i] = "*"

\* a stored key longer than 4 characters, with a non-'*' character in the
\* masked part, was previewed by a settings GET
C3_Witness ==
    /\ HasPreview
    /\ req.variant = "file"
    /\ req.method = "GET"
    /\ Len(storage.apiKey) > 4
    /\ storage.apiKey[1] = "k"
    /\ resp.body.preview # storage.apiKey

----------------------------------------------------------------------------
(* C4: what a settings POST stores *)

IsSettingsPost(r) ==
    r.endpoint = "settings" /\ r.variant = "file" /\ r.method = "POST"

\* the body is a JSON value other than null
ParsedBody(r) == r.body.kind \in {"object", "scalar"}

UsableApiKey(r) == IsString(r.body.apiKey) /\ Trim(r.body.apiKey) # << >>

C4_WitnessRefused ==
    /\ pc = "done"
    /\ IsSettingsPost(req)
    /\ ParsedBody(req)
    /\ ~UsableApiKey(req)
    /\ resp.status = 400
    /\ storage.exists

----------------------------------------------------------------------------
(* C1, C5: the proxy token guard *)

IsGuardedCall ==
    /\ pc = "done"
    /\ req.endpoint = "proxy"
    /\ req.method \in {"GET", "POST"}

\* the token values the caller put where the handler looks for them
CallerTokens(r) ==
    {r.tokens[f] : f \in {g \in TokenFields(r.variant) : r.tokens[g] # Undefined}}

\* C1 as stated: with a non-empty token configured, a GET or POST whose
\* caller token is missing, empty or different from the configured one is
\* answered 401, whatever the provider key and the body.
C1_Unauthorized401 ==
    (/\ IsGuardedCall
     /\ IsString(envToken) /\ Trim(envToken) # << >>
     /\ \A t \in CallerTokens(req) : Trim(t) # Trim(envToken))
        => resp.status = 401

\* C5: without a configured proxy token every GET and POST is answered with
\* the misconfiguration status 503 or 500, never 401 or 200, whatever token
\* the caller sends, and the provider is not called.
C5_Misconfigured ==
    (IsGuardedCall /\ ~Truthy(configuredToken(req.variant)))
        => /\ resp.status \in {500, 503}
           /\ resp.body.shape = "error.message"
           /\ calls = << >>

\* no token is configured, the provider key is, and a caller who sends a
\* token with a complete upload is told of the misconfiguration
C5_Witness ==
    /\ IsGuardedCall
    /\ req.method = "POST"
    /\ ~Truthy(configuredToken(req.variant))
    /\ Truthy(envKey)
    /\ CallerTokens(req) = {<<"t">>}
    /\ req.body = FullBody
    /\ resp.status = 500
    /\ resp.body.message = "Server misconfiguration: missing OpenAI proxy token."

----------------------------------------------------------------------------
(* C2: what the resolver returns *)

\* C2 as stated: resolve() returns the trimmed OPENAI_API_KEY when that is
\* non-empty, otherwise the apiKey of the stored record when there is one,
\* otherwise null.
C2_ResolvePrecedence ==
    (pc = "done" /\ resolved # NotCalled) =>
        resolved = IF IsString(envKey) /\ Trim(envKey) # << >> THEN Trim(envKey)
                   ELSE IF storage.exists /\ storage.apiKey # Unparseable
                   THEN storage.apiKey
                   ELSE Null

----------------------------------------------------------------------------
(* C6, C7, C8: the chat handler *)

IsChatPost == pc = "done" /\ req.endpoint = "chat" /\ req.method = "POST"

HasMessagesArray(r) == r.body.kind = "object" /\ r.body.messages \in JsArrays

\* C6: with OPENAI_API_KEY unset and no stored record the resolver returns
\* null and every POST to /api/chat is answered 500 with the configuration
\* error in {error:{message}}, whatever the body, without a provider call.
C6_NoKey500 ==
    (IsChatPost /\ envKey = Undefined /\ ~storage.exists) =>
        /\ resp.status = 500
        /\ resp.body.shape = "error.message"
        /\ resp.body.message = "The OpenAI API key is not configured on the server."
        /\ calls = << >>
        /\ req.variant = "resolve" => resolved = Null

\* a well-formed chat request was refused for want of a key
C6_Witness ==
    /\ IsChatPost
    /\ envKey = Undefined /\ ~storage.exists
    /\ HasMessagesArray(req)
    /\ resp.status = 500

\* a provider key is at the handler's disposal
ChatKeyConfigured ==
    IF req.variant = "resolve" THEN resolved # Null ELSE Truthy(envKey)

\* C7: with a provider key configured, a chat POST whose body is not JSON or
\* whose messages field is absent or not an array is answered 400 with
\* {error:{message}} and no provider call; one whose messages field is an
\* array is forwarded.
C7_Validation ==
    (IsChatPost /\ ChatKeyConfigured) =>
        IF HasMessagesArray(req)
        THEN Len(calls) >= 1
        ELSE /\ resp.status = 400
             /\ resp.body.shape = "error.message"
             /\ calls = << >>

\* a body whose messages field is a string was refused with a key configured
C7_Witness ==
    /\ IsChatPost
    /\ ChatKeyConfigured
    /\ req.body.kind = "object"
    /\ req.body.messages = "'hi'"
    /\ resp.status = 400

\* C8: the body sent to the provider has the server's model, the inbound
\* messages, the inbound temperature or 0.6, max_tokens only when the inbound
\* value is a number, response_format only when it is an object, and nothing
\* else of the inbound body.
C8_Payload ==
    (pc = "done" /\ req.endpoint = "chat" /\ calls # << >>) =>
        LET p == calls[1].payload
            b == req.body
        IN  /\ DOMAIN p = {"model", "messages", "temperature", "max_tokens", "response_format"}
            /\ p.model = "gpt-4o-mini"
            /\ p.messages = b.messages
            /\ p.temperature = IF b.temperature = "undefined" THEN "0.6" ELSE b.temperature
            /\ p.max_tokens # "undefined" =>
                 b.max_tokens \in JsNumbers /\ p.max_tokens = b.max_tokens
            /\ p.response_format # "undefined" =>
                 b.response_format \in JsObjects \cup JsArrays
                 /\ p.response_format = b.response_format

\* a request naming its own model, with a string max_tokens and an object
\* response_format, reached the provider with max_tokens dropped
C8_Witness ==
    /\ pc = "done" /\ req.endpoint = "chat" /\ req.variant = "resolve"
    /\ calls # << >>
    /\ req.body.model = "'gpt-4'"
    /\ req.body.max_tokens = "'64'"
    /\ req.body.temperature = "undefined"
    /\ calls[1].payload.response_format = "{type:json_object}"
    /\ calls[1].payload.max_tokens = "undefined"
    /\ calls[1].payload.temperature = "0.6"

----------------------------------------------------------------------------
(* C9, C10: the call to the provider and its failure *)

IsProviderEndpoint == pc = "done" /\ req.endpoint \in {"chat", "transcribe", "proxy"}

\* the key file or the environment yields a key to resolveApiKey
ResolvableKey ==
    \/ IsString(envKey) /\ Trim(envKey) # << >>
    \/ resolver = "stored" /\ storage.exists /\ storage.apiKey # Unparseable

\* the request passes configuration, authorization and validation
Passes(r) ==
    /\ r.method = "POST"
    /\ CASE r.endpoint = "chat" ->
              /\ IF r.variant = "resolve" THEN ResolvableKey ELSE Truthy(envKey)
              /\ HasMessagesArray(r)
         [] r.endpoint = "transcribe" ->
              /\ IF r.variant = "fetch" THEN ResolvableKey ELSE Truthy(envKey)
              /\ r.form = "file"
         [] r.endpoint = "proxy" ->
              /\ IF TokenFirst(r.variant) THEN ResolvableKey ELSE Truthy(envKey)
              /\ Truthy(configuredToken(r.variant))
              /\ providedToken(r.variant, r) = configuredToken(r.variant)
              /\ IsMultipart(r.contentType)
              /\ r.variant = "p008" \/ ~r.body.empty
              /\ Splices(r.variant) => HasBoundary(r.contentType) /\ r.body.closed

ProviderFailed ==
    /\ IsProviderEndpoint
    /\ Len(calls) >= 1
    /\ calls[1].reply.kind = "response"
    /\ ~Ok(calls[1].reply)

\* C10 as stated: on a non-2xx provider answer the response has the
\* provider's status, and its body is the provider's JSON when that parses
\* and an {error:{message}} envelope otherwise, in every handler.
C10_SameStatus ==
    ProviderFailed =>
        /\ resp.status = calls[1].reply.status
        /\ IF JsonParses(calls[1].reply)
           THEN resp.body = [shape |-> "provider", data |-> calls[1].reply.body]
           ELSE resp.body.shape = "error.message"

----------------------------------------------------------------------------
(* C11: the provider call throws *)

NetworkFailed ==
    /\ IsProviderEndpoint
    /\ Len(calls) >= 1
    /\ calls[1].reply.kind = "network"

\* C11 as stated: when the provider call throws, the handler answers 500
\* with a message the server chose; the text of the caught exception is not
\* in the response body.
C11_GenericFailure ==
    NetworkFailed =>
        /\ resp.status = 500
        /\ resp.body.message # ExceptionText

----------------------------------------------------------------------------
(* C12: no exception reaches the runtime *)

\* the bodies a handler builds: objects with an error, a payload of the
\* endpoint, or the provider's parsed JSON
JsonShapes ==
    {"error.message", "error", "settings", "deleted", "status", "ready",
     "transcript", "provider"}

\* C12: every invocation, whatever the method, the tokens, the body, the
\* state of the key file and the provider's outcome, ends in a response with
\* an HTTP status and a JSON body (none on the 204 of OPTIONS); no exception
\* escapes the handler.
C12_AlwaysResponds ==
    pc = "done" =>
        /\ resp # Escaped
        /\ resp.status \in 200..599
        /\ resp.status = 204 \/ resp.body.shape \in JsonShapes

\* the key file cannot be parsed, the read throws inside the settings
\* handler, and the caller gets the handler's 500
C12_Witness ==
    /\ pc = "done"
    /\ req.endpoint = "settings" /\ req.variant = "file" /\ req.method = "GET"
    /\ storage = CorruptFile
    /\ resp.status = 500
    /\ resp.body.shape = "error"

----------------------------------------------------------------------------
(* C13: the transcript handed back *)

Transcribed ==
    /\ pc = "done"
    /\ req.endpoint = "transcribe"
    /\ Len(calls) = 1
    /\ calls[1].reply.kind = "response"
    /\ Ok(calls[1].reply)
    /\ calls[1].reply.body = "json"

\* C13 as stated: for a 2xx provider transcript the handler answers 200 with
\* a text that is never empty: the trimmed provider text when that is
\* non-empty, and "No speech was detected in the clip." when neither the text
\* nor the segments yield anything; duration is the provider's number or
\* null, language the provider's string or null.
C13_Transcript ==
    Transcribed =>
        LET d == calls[1].reply.data
            hasText == IsString(d.text) /\ Trim(d.text) # << >>
            hasSegments == d.segments.isArray
                           /\ \E i \in 1..Len(d.segments.items) :
                                IsString(d.segments.items[i])
                                /\ Trim(d.segments.items[i]) # << >>
        IN  /\ resp.status = 200
            /\ resp.body.text # << >>
            /\ hasText => resp.body.text = Trim(d.text)
            /\ (~hasText /\ ~hasSegments) => resp.body.text = NoSpeech
            /\ resp.body.duration \in JsFiniteNumbers \cup {"null"}
            /\ resp.body.language = Null \/ IsString(resp.body.language)

----------------------------------------------------------------------------
(* C14: the type of the forwarded file *)

Uploaded ==
    /\ pc = "done"
    /\ req.endpoint = "transcribe"
    /\ req.variant \in {"fetch", "p003"}
    /\ Len(calls) = 1

DotOpus == <<".", "o", "p", "u", "s">>

\* C14 as stated: determineFileMetadata gives the declared type when that is
\* non-empty and not application/octet-stream; without such a type, a name
\* ending in .opus in any letter case gives audio/ogg or audio/opus, and a
\* name matching no table entry gives audio/webm.
C14_MimeOrder ==
    Uploaded =>
        LET file == req.file
            mimeType == calls[1].payload.file.mimeType
            declared == file.type \notin {"undefined", "", "application/octet-stream"}
            named == IF IsString(file.name) THEN file.name ELSE << >>
        IN  /\ declared => mimeType = file.type
            /\ (~declared /\ EndsWith(ToLowerCase(named), DotOpus)) =>
                   mimeType \in {"audio/ogg", "audio/opus"}
            /\ (~declared /\ file.name \in {Undefined, << >>} /\ file.filename = Undefined) =>
                   mimeType = "audio/webm"

----------------------------------------------------------------------------
(* C15: the fields of a forwarded transcription *)

Forwarded ==
    /\ pc = "done"
    /\ req.endpoint \in {"transcribe", "proxy"}
    /\ Len(calls) >= 1

\* C15 as stated: every transcription request forwarded to the provider has
\* a model field and a response_format field equal to verbose_json, whether
\* or not the inbound form had them (an inbound response_format that is
\* passed on unchanged is not counted against the statement).
C15_ForwardedFields ==
    Forwarded =>
        \A i \in 1..Len(calls) :
            /\ calls[i].payload.model # "absent"
            /\ calls[i].payload.response_format \in {"verbose_json", "inbound"}

----------------------------------------------------------------------------
(* C16, C17: preflight requests and the CORS header *)

\* C16 as stated: an OPTIONS request to any endpoint is answered with 204,
\* no body and the CORS headers, whatever key or token is configured and
\* whatever token the caller sends.
C16_Preflight204 ==
    (pc = "done" /\ req.method = "OPTIONS") => resp = Options204

\* C17 as stated: every response of every endpoint, for every method and
\* status, carries an Access-Control-Allow-Origin header.
C17_AllowOrigin ==
    pc = "done" => resp.cors

----------------------------------------------------------------------------
(* C18: the status payload *)

StatusAnswered == pc = "done" /\ req.endpoint = "status" /\ req.method = "GET"

TrimmedEnvKey == IF IsString(envKey) THEN Trim(envKey) ELSE << >>

StoredRecordExists ==
    storage.exists /\ IsString(storage.apiKey) /\ Trim(storage.apiKey) # << >>

\* C18 as stated: in the payload of GET /api/status, source is "environment"
\* exactly when the trimmed environment key is non-empty, "storage" exactly
\* when it is empty and a stored record exists, and null otherwise;
\* openaiConfigured is true exactly when source is not null. (Nothing is
\* asked about source when the key file cannot be parsed.)
C18_StatusSource ==
    StatusAnswered =>
        LET body == resp.body IN
        /\ (body.source = "environment") <=> (TrimmedEnvKey # << >>)
        /\ storage # CorruptFile =>
              ((body.source = "storage") <=> (TrimmedEnvKey = << >> /\ StoredRecordExists))
        /\ storage # CorruptFile =>
              ((body.source = "null") <=> (TrimmedEnvKey = << >> /\ ~StoredRecordExists))
        /\ body.openaiConfigured <=> (body.source # "null")

----------------------------------------------------------------------------
(* C19: lenient parsing of the settings body *)

UnusableSettingsBody ==
    /\ pc = "done"
    /\ req.endpoint = "settings"
    /\ req.variant = "file"
    /\ req.method = "POST"
    /\ req.body.kind \in {"empty", "invalid"}

\* C19 as stated: a POST to the file-backed settings handler whose body is missing,
\* empty or unparseable is answered, under every Content-Type, with the 400
\* missing-apiKey error and never with a 5xx.
C19_LenientBody ==
    UnusableSettingsBody =>
        resp = SettingsError(400,
                 "Missing apiKey. Provide a non-empty OpenAI API key in the request body.")

----------------------------------------------------------------------------
(* C20: key resolution after a change of the stored key *)

\* a chat or transcription request has resolved its key with no key in the
\* environment and a key file that is absent or readable
ResolvedFromStorage ==
    /\ IsProviderEndpoint
    /\ resolved # NotCalled
    /\ envKey = Undefined
    /\ storage # CorruptFile

\* C20 as stated: with the environment key unset, a chat or transcription
\* request resolves the key that the last completed settings POST stored,
\* and null when the last completed settings request deleted it (the key
\* file holds exactly what the last completed POST or DELETE left).
C20_ReadsStorage ==
    ResolvedFromStorage =>
        resolved = IF storage.exists THEN storage.apiKey ELSE Null

----------------------------------------------------------------------------
(* The key file under requests that run at the same time *)

\* number of requests that work on the key file at the same time
StoreProcs == 3

\* JSON.stringify(record, null, 2) as the bytes of the file: the key between
\* the braces, then the timestamp, whose text has one length for every date
Serialize(apiKey) == <<"{">> \o apiKey \o <<",", "T", "}">>

\* the keys the settings requests submit, and the one stored before
StoreKeys == {<<"a">>, <<"b", "c">>, <<"d", "e">>}
EarlierKey == <<"o">>

\* JSON.parse(contents) and the checks after it, as readStoredKey and
\* readStoredKeyRecord make them: the stored key, or the SyntaxError
ParseContents(contents) ==
    IF \E k \in StoreKeys \cup {EarlierKey} : Serialize(k) = contents
    THEN CHOOSE k \in StoreKeys \cup {EarlierKey} : Serialize(k) = contents
    ELSE Thrown

\* write(fd, data) at the start of a file opened for writing: the bytes
\* go over what the file holds from offset 0 on
WriteAtStart(contents, data) ==
    data \o SubSeq(contents, Len(data) + 1, Len(contents))

\* the requests: a settings POST with a key, a settings DELETE, a settings
\* GET, the resolveApiKey of a chat or transcription request
StoreOps ==
    {[op |-> "post", apiKey |-> k, at |-> "start", ino |-> 0, seen |-> NotCalled] :
        k \in StoreKeys}
    \cup {[op |-> o, apiKey |-> Null, at |-> "start", ino |-> 0, seen |-> NotCalled] :
            o \in {"delete", "get", "resolve"}}

\* writeKey / writeStoredApiKey, first half: fs.writeFile opens the file with
\* flag 'w', which creates it or cuts it to length 0
WriteKeyOpen(p) ==
    /\ procs[p].op = "post"
    /\ procs[p].at = "start"
    /\ LET ino == IF disk.exists THEN disk.ino ELSE disk.ino + 1 IN
         /\ disk' = [exists |-> TRUE, ino |-> ino, content |-> << >>]
         /\ procs' = [procs EXCEPT ![p].at = "opened", ![p].ino = ino]
    /\ UNCHANGED <<server, ui, flights, mic>>

\* writeKey / writeStoredApiKey, second half: the record is written through
\* the descriptor; a file unlinked in between is no longer in the directory
WriteKeyWrite(p) ==
    /\ procs[p].op = "post"
    /\ procs[p].at = "opened"
    /\ disk' = IF disk.exists /\ disk.ino = procs[p].ino
               THEN [disk EXCEPT !.content =
                        WriteAtStart(disk.content, Serialize(procs[p].apiKey))]
               ELSE disk
    /\ procs' = [procs EXCEPT ![p].at = "done"]
    /\ UNCHANGED <<server, ui, flights, mic>>

\* deleteKey / deleteStoredApiKey: fs.unlink, ENOENT when there is no file
DeleteKey(p) ==
    /\ procs[p].op = "delete"
    /\ procs[p].at = "start"
    /\ disk' = [disk EXCEPT !.exists = FALSE, !.content = << >>]
    /\ procs' = [procs EXCEPT ![p].at = "done"]
    /\ UNCHANGED <<server, ui, flights, mic>>

\* readStoredKey in a settings GET and readStoredApiKey in resolveApiKey:
\* fs.readFile, then JSON.parse; the GET hands the error on to the handler's
\* catch, resolveApiKey swallows it and resolves null
ReadKey(p) ==
    /\ procs[p].op \in {"get", "resolve"}
    /\ procs[p].at = "start"
    /\ LET read == IF ~disk.exists THEN Null ELSE ParseContents(disk.content)
           seen == IF procs[p].op = "resolve" /\ read = Thrown THEN Null ELSE read
       IN procs' = [procs EXCEPT ![p].at = "done", ![p].seen = seen]
    /\ UNCHANGED <<server, disk, ui, flights, mic>>

InitStore ==
    /\ envKey = Undefined
    /\ envToken = Undefined
    /\ resolver = "stored"
    /\ storage = NoFile
    /\ clock = 0
    /\ pc = "idle"
    /\ req = NoRequest
    /\ resp = NoResponse
    /\ calls = << >>
    /\ resolved = NotCalled
    /\ disk \in {NoDisk, [exists |-> TRUE, ino |-> 0, content |-> Serialize(EarlierKey)]}
    /\ procs \in [1..StoreProcs -> StoreOps]
    /\ ui = NoScreen
    /\ flights = << >>
    /\ mic = NoMic

NextStore ==
    \/ \E p \in 1..StoreProcs : WriteKeyOpen(p)
    \/ \E p \in 1..StoreProcs : WriteKeyWrite(p)
    \/ \E p \in 1..StoreProcs : DeleteKey(p)
    \/ \E p \in 1..StoreProcs : ReadKey(p)

SpecStore == InitStore /\ [][NextStore]_vars

----------------------------------------------------------------------------
(* C21, C22: the key file under concurrent requests *)

\* C21 as stated: a reader that runs beside a settings POST sees a complete
\* record or no file, never an empty, partial or unparseable file, and
\* does not fail: no settings GET ends in the error of the read.
C21_AtomicWrite ==
    \A p \in DOMAIN procs :
        (procs[p].op = "get" /\ procs[p].at = "done") => procs[p].seen # Thrown

\* C22 as stated: once every concurrent settings POST and DELETE has
\* completed, the key file is absent or holds a complete record with one of
\* the submitted keys (or the earlier one), never a mixture of two records.
C22_LastWriterWins ==
    (\A p \in DOMAIN procs : procs[p].at = "done") =>
        \/ ~disk.exists
        \/ ParseContents(disk.content) # Thrown

----------------------------------------------------------------------------
(* The client screens: texts *)

Hi == <<"h", "i">>
Hello == <<"h", "e", "l", "l", "o">>
\* an error text as a provider or a runtime words it
PrefixedError == <<"E", "r", "r", "o", "r", ":", " ", "x">>

UnknownError == <<"An unknown error occurred.">>

\* trimmed.replace(/^(?:[A-Za-z]*Error):\s*/u, ''): letters up to a colon,
\* the last five of them "Error", go together with the blanks after the colon
StripErrorPrefix(s) ==
    LET Letters == {"a", "b", "c", "d", "e", "f", "g", "h", "i", "j", "k", "l", "m",
                    "n", "o", "p", "q", "r", "s", "t", "u", "v", "w", "x", "y", "z",
                    "A", "B", "C", "D", "E", "F", "G", "H", "I", "J", "K", "L", "M",
                    "N", "O", "P", "Q", "R", "S", "T", "U", "V", "W", "X", "Y", "Z"}
        stops == {i \in 1..Len(s) : s[i] \notin Letters}
        c == IF stops = {} THEN 0 ELSE CHOOSE i \in stops : \A j \in stops : i <= j
    IN IF c >= 6 /\ s[c] = ":" /\ SubSeq(s, c - 5, c - 1) = <<"E", "r", "r", "o", "r">>
       THEN TrimStart(SubSeq(s, c + 1, Len(s)))
       ELSE s

\* normaliseErrorMessage, the same function in the hook and in every screen
normaliseErrorMessage(value) ==
    LET trimmed == Trim(value)
        stripped == Trim(StripErrorPrefix(trimmed))
    IN IF trimmed = << >> THEN UnknownError
       ELSE IF stripped # << >> THEN stripped ELSE trimmed

\* extractAssistantReply: choices[0].message.content, trimmed, or null
extractAssistantReply(json) ==
    IF IsString(json.content) /\ Trim(json.content) # << >>
    THEN Trim(json.content)
    ELSE Null

\* what the provider's body parses to, as far as the clients read it: the
\* content of the first choice and the message of the error object
Completion(content) == [content |-> content, error |-> Undefined]
ProviderError(message) == [content |-> Undefined, error |-> message]

\* a body that is empty, not JSON, or JSON null
NoJson == [content |-> Null, error |-> Null]

\* the provider's answers to a chat request of a client
ClientOutcomes ==
    {[kind |-> "network", status |-> 0, body |-> "none", data |-> Completion(Undefined)]}
    \cup {[kind |-> "response", status |-> 200, body |-> "json", data |-> Completion(c)] :
            c \in {Hello, <<" ">> \o Hello, <<" ">>, Undefined}}
    \cup {[kind |-> "response", status |-> 200, body |-> "null", data |-> Completion(Undefined)]}
    \cup {[kind |-> "response", status |-> st, body |-> "json", data |-> ProviderError(m)] :
            st \in {401, 500}, m \in {PrefixedError, <<" ">>}}

\* the chat handler with resolveApiKey on a body whose messages are an array,
\* whose temperature is a number and whose response_format, if any, an object
ClientChat(sent, temperature, format, o) ==
    LET apiKey == ChatApiKey("resolve")
        call == [url |-> "chat/completions", authorization |-> apiKey,
                 payload |-> [model |-> ChatModel, messages |-> sent,
                              temperature |-> temperature, max_tokens |-> "undefined",
                              response_format |-> format]]
    IN IF apiKey = Null
       THEN [resp |-> Envelope(500, "The OpenAI API key is not configured on the server.", TRUE),
             calls |-> << >>]
       ELSE [resp |-> ChatReply("resolve", o), calls |-> ProviderCalls(call, o)]

\* readResponseContent and response.ok on the answer of the chat handler:
\* json is the parsed body or null, rawText its text
ResponseContent(answer, o) ==
    [ok |-> answer.status >= 200 /\ answer.status <= 299,
     json |-> IF answer.body.shape = "error.message"
              THEN ProviderError(<<answer.body.message>>)
              ELSE IF o.body = "json" THEN o.data ELSE NoJson,
     rawText |-> IF answer.body.shape = "provider" /\ o.body = "null"
                 THEN <<"n", "u", "l", "l">> ELSE <<"{}">>]

\* extractErrorMessage: the message of the error object, else the raw text
extractErrorMessage(content) ==
    IF content.json # NoJson /\ IsString(content.json.error) /\ Trim(content.json.error) # << >>
    THEN Trim(content.json.error)
    ELSE Trim(content.rawText)

\* fetch itself rejects: the request never reached the API
Unreached == [kind |-> "unreached", status |-> 0, body |-> "none", data |-> Completion(Undefined)]
FailedToFetch == <<"Failed to fetch">>

\* what a client holds after `await fetch` and readResponseContent
Answer(sent, temperature, format, o) ==
    IF o.kind = "unreached"
    THEN [threw |-> TRUE, ok |-> FALSE, json |-> NoJson, rawText |-> << >>, calls |-> << >>]
    ELSE LET res == ClientChat(sent, temperature, format, o) IN
         [threw |-> FALSE, calls |-> res.calls] @@ ResponseContent(res.resp, o)

\* the answers of the transcription endpoint as the clients read them; the
\* text of the transcript stands where a completion has its content
TranscribeAnswers ==
    {[threw |-> TRUE, ok |-> FALSE, json |-> NoJson, rawText |-> << >>, calls |-> << >>]}
    \cup {[threw |-> FALSE, ok |-> TRUE, json |-> j, rawText |-> <<"{}">>, calls |-> << >>] :
            j \in {Completion(Hi), Completion(<<" ">>), Completion(Undefined)}}
    \cup {[threw |-> FALSE, ok |-> FALSE, json |-> ProviderError(PrefixedError),
           rawText |-> <<"{}">>, calls |-> << >>]}

----------------------------------------------------------------------------
(* The client screens: state *)

\* the hook useAssistantChat with the component that renders it, ChatScreen
\* of settings.tsx, HomeScreen of index.tsx, the language coach, and the
\* speaking screen of chat.tsx
Screens == {"hook", "chat", "home", "coach", "speech"}

\* user actions on a screen
MaxPresses == 3

Message(id, role, text, status) ==
    [id |-> id, role |-> role, text |-> text, status |-> status, meta |-> Undefined]

\* a request or another awaited step of a handler: the placeholder it will
\* settle, the text it carries, conversationRef as the handler found it, the
\* messages of its payload, and the handler to resume
Flight(kind, id, text, prev, sent, then) ==
    [kind |-> kind, id |-> id, text |-> text, prev |-> prev, sent |-> sent, then |-> then]

\* a screen after its first render, the status check of the hook done and
\* the assistant enabled
Screen0(s) ==
    [screen |-> s, mounted |-> TRUE,
     messages |-> <<Message(1, "assistant", <<"intro">>, "none")>>,
     busy |-> FALSE,           \* pending, isSending, isUploading
     transcribing |-> FALSE,   \* voiceTranscribing, isTranscribing
     recording |-> FALSE,      \* isRecording
     error |-> Null,           \* error, errorMessage
     history |-> << >>,        \* conversationRef.current
     nextId |-> 2,             \* createId
     presses |-> 0,
     recorderRef |-> 0,        \* mediaRecorderRef.current, as a place in mic.streams
     streamRef |-> 0]          \* mediaStreamRef.current

World == [ui |-> ui, flights |-> flights, mic |-> mic]

\* messages.map((message) => ({ role, content }))
Wire(messages) ==
    [i \in DOMAIN messages |-> [role |-> messages[i].role, content |-> messages[i].text]]

\* updateMessage / updateAssistantMessage: the message with this id, no other
updateMessage(messages, id, text, status, meta) ==
    [i \in DOMAIN messages |->
        IF messages[i].id = id
        THEN [messages[i] EXCEPT !.text = text, !.status = status, !.meta = meta]
        ELSE messages[i]]

RemoveAt(s, i) == SubSeq(s, 1, i - 1) \o SubSeq(s, i + 1, Len(s))

contextMessages == <<[role |-> "system", content |-> <<"system prompt">>]>>

\* the reply of the coach and of the evaluation as JSON text, and its reply
CoachJson == <<"{reply:hello}">>

----------------------------------------------------------------------------
(* The client screens: sending *)

\* sendMessage of useAssistantChat; pending is the value its closure holds,
\* eager whether React ran the updater of setMessages inside the call
sendMessage(w, text, pending, eager, then) ==
    LET trimmed == Trim(text)
        userMessage == Message(w.ui.nextId, "user", trimmed, "none")
        next == Append(w.ui.messages, userMessage)
        history == IF eager THEN next ELSE << >>
    IN IF trimmed = << >> \/ pending THEN w
       ELSE [w EXCEPT !.ui.error = Null, !.ui.busy = TRUE,
                      !.ui.messages = next, !.ui.nextId = @ + 1,
                      !.flights = Append(@, Flight("chat", 0, trimmed, << >>,
                                                   contextMessages \o Wire(history), then))]

\* sendMessage of ChatScreen (settings.tsx)
sendMessageChatScreen(w, inputValue) ==
    LET trimmed == Trim(inputValue)
        userMessage == Message(w.ui.nextId, "user", trimmed, "none")
        assistantMessage == Message(w.ui.nextId + 1, "assistant", <<"Thinking...">>, "pending")
        Settled(m) == m.status \notin {"pending", "error"}
        previousMessages == SelectSeq(w.ui.messages, Settled)
    IN IF trimmed = << >> \/ w.ui.busy THEN w
       ELSE [w EXCEPT !.ui.messages = @ \o <<userMessage, assistantMessage>>,
                      !.ui.nextId = @ + 2, !.ui.busy = TRUE,
                      !.flights = Append(@, Flight("chat", assistantMessage.id, trimmed, << >>,
                                                   Wire(Append(previousMessages, userMessage)),
                                                   "none"))]

\* submitInteraction of the language coach, up to its fetch
submitInteraction(w, content, assistantMessageId) ==
    LET previousHistory == w.ui.history
        updatedHistory == Append(previousHistory, [role |-> "user", content |-> content])
    IN [w EXCEPT !.ui.history = updatedHistory, !.ui.busy = TRUE,
                 !.flights = Append(@, Flight("chat", assistantMessageId, content,
                                              previousHistory,
                                              contextMessages \o updatedHistory, "none"))]

\* sendTextMessage of the language coach
sendTextMessage(w, inputValue) ==
    LET trimmed == Trim(inputValue)
        userMessage == Message(w.ui.nextId, "user", trimmed, "none")
        assistantMessage == Message(w.ui.nextId + 1, "assistant", <<"Evaluating...">>, "pending")
    IN IF trimmed = << >> \/ w.ui.busy THEN w
       ELSE submitInteraction(
                [w EXCEPT !.ui.messages = @ \o <<userMessage, assistantMessage>>,
                          !.ui.nextId = @ + 2],
                trimmed, assistantMessage.id)

\* evaluateSpeech of the speaking screen, up to its fetch
evaluateSpeech(w, transcript) ==
    LET trimmed == Trim(transcript)
        userMessage == Message(w.ui.nextId, "user", trimmed, "none")
        assistantMessage == Message(w.ui.nextId + 1, "assistant",
                                    <<"Evaluating your speaking sample...">>, "pending")
    IN IF trimmed = << >>
       THEN [w EXCEPT !.ui.error = <<"I could not detect any speech.">>]
       ELSE [w EXCEPT !.ui.messages = @ \o <<userMessage, assistantMessage>>,
                      !.ui.nextId = @ + 2, !.ui.busy = TRUE,
                      !.flights = Append(@, Flight("chat", assistantMessage.id, trimmed, << >>,
                                                   contextMessages \o
                                                     <<[role |-> "user",
                                                        content |-> <<"{transcript:">> \o trimmed \o <<"}">>]>>,
                                                   "none"))]

\* handleSendText of the speaking screen
handleSendText(w, inputValue) ==
    IF Trim(inputValue) = << >> \/ w.ui.busy \/ w.ui.recording \/ w.ui.transcribing
    THEN w
    ELSE evaluateSpeech(w, Trim(inputValue))

\* sendBlobForTranscription of HomeScreen, up to its fetch
sendBlobForTranscription(w, fileName) ==
    LET userMessage == Message(w.ui.nextId, "user", <<"Uploaded ">> \o fileName, "none")
        pendingMessage == Message(w.ui.nextId + 1, "assistant",
                                  <<"Transcribing audio...">>, "pending")
    IN [w EXCEPT !.ui.error = Null, !.ui.busy = TRUE,
                 !.ui.messages = @ \o <<userMessage, pendingMessage>>,
                 !.ui.nextId = @ + 2,
                 !.flights = Append(@, Flight("transcribe", pendingMessage.id, fileName,
                                              << >>, << >>, "none"))]

\* transcribeBlob of useAssistantChat, up to its fetch, the proxy token set;
\* pending is what the sendMessage of its closure holds
transcribeBlob(w, pending) ==
    LET pendingMessage == Message(w.ui.nextId, "assistant", <<"Transcribing...">>, "pending")
    IN [w EXCEPT !.ui.transcribing = TRUE, !.ui.error = Null,
                 !.ui.messages = Append(@, pendingMessage), !.ui.nextId = @ + 1,
                 !.flights = Append(@, Flight("transcribe", pendingMessage.id, << >>,
                                              << >>, << >>,
                                              IF pending THEN "pending" ELSE "free"))]

----------------------------------------------------------------------------
(* The client screens: settling *)

\* what the try block of a chat request throws, by screen; null when it
\* runs to its end
ChatThrown(screen, c) ==
    LET reply == IF c.json = NoJson THEN Null ELSE extractAssistantReply(c.json) IN
    IF c.threw THEN FailedToFetch
    ELSE IF screen = "hook"
    THEN IF ~c.ok THEN extractErrorMessage(c)
         ELSE IF c.json = NoJson THEN <<"The assistant returned an empty response.">>
         ELSE Null
    ELSE IF screen = "coach"
    THEN IF ~c.ok THEN extractErrorMessage(c)
         ELSE IF c.json = NoJson THEN <<"The AI service returned an empty response.">>
         ELSE IF reply = Null THEN <<"The AI response did not include any content.">>
         ELSE IF reply # CoachJson THEN <<"The AI response was not valid JSON.">>
         ELSE Null
    ELSE IF ~c.ok \/ c.json = NoJson THEN extractErrorMessage(c)
         ELSE IF reply = Null
         THEN IF screen = "chat" THEN <<"The AI response did not include a message.">>
              ELSE <<"The evaluation response was empty.">>
         ELSE Null

\* the text the screen shows for a reply: the hook has a text for an empty
\* reply, the coach and the speaking screen read the reply out of its JSON
ChatText(screen, c) ==
    LET reply == extractAssistantReply(c.json) IN
    IF screen = "hook" THEN IF reply = Null THEN <<"(empty response)">> ELSE reply
    ELSE IF screen \in {"coach", "speech"} /\ reply = CoachJson THEN Hello
    ELSE reply

\* sendMessage of useAssistantChat after its fetch: a message is appended
HookChatSettled(w, f, c) ==
    LET thrown == ChatThrown("hook", c)
        fallbackMessage == normaliseErrorMessage(thrown)
        shown == IF thrown = Null
                 THEN [w EXCEPT !.ui.messages =
                          Append(@, Message(w.ui.nextId, "assistant", ChatText("hook", c), "none")),
                                !.ui.nextId = @ + 1]
                 ELSE [w EXCEPT !.ui.messages =
                          Append(@, Message(w.ui.nextId, "assistant", fallbackMessage, "error")),
                                !.ui.nextId = @ + 1,
                                !.ui.error = fallbackMessage]
    IN [shown EXCEPT !.ui.busy = FALSE,
                     !.ui.transcribing = IF f.then = "voice" THEN FALSE ELSE @]

\* the screens with a placeholder after their fetch: ChatScreen.sendMessage,
\* submitInteraction, evaluateSpeech
PlaceholderSettled(w, f, c) ==
    LET screen == w.ui.screen
        thrown == ChatThrown(screen, c)
        text == IF thrown = Null THEN ChatText(screen, c) ELSE normaliseErrorMessage(thrown)
        updatedHistory == Append(f.prev, [role |-> "user", content |-> f.text])
    IN [w EXCEPT !.ui.messages = updateMessage(@, f.id, text,
                                               IF thrown = Null THEN "none" ELSE "error",
                                               Undefined),
                 !.ui.history = IF screen # "coach" THEN @
                                ELSE IF thrown # Null THEN f.prev
                                ELSE Append(updatedHistory,
                                            [role |-> "assistant", content |-> text]),
                 !.ui.busy = FALSE,
                 !.ui.transcribing = IF f.then = "voice" THEN FALSE ELSE @]

\* the handler that awaits the request it has just started
Awaited(w) == [w EXCEPT !.flights[Len(w.flights)].then = "voice"]

\* sendBlobForTranscription of HomeScreen after its fetch
HomeTranscribed(w, f, c) ==
    LET thrown == IF c.threw THEN FailedToFetch
                  ELSE IF ~c.ok THEN extractErrorMessage(c)
                  ELSE IF c.json = NoJson
                  THEN <<"The server response did not include any data.">>
                  ELSE IF ~IsString(c.json.content)
                  THEN <<"The server response did not include a transcription result.">>
                  ELSE Null
        fallbackMessage == normaliseErrorMessage(thrown)
    IN IF thrown = Null
       THEN [w EXCEPT !.ui.messages =
                updateMessage(@, f.id,
                              IF Trim(c.json.content) # << >> THEN Trim(c.json.content)
                              ELSE <<"No speech was detected in the clip.">>,
                              "none", Undefined),
                      !.ui.busy = FALSE]
       ELSE [w EXCEPT !.ui.messages =
                updateMessage(@, f.id, <<"I could not transcribe that audio clip.">>,
                              "error", fallbackMessage),
                      !.ui.error = fallbackMessage,
                      !.ui.busy = FALSE]

\* transcribeBlob of useAssistantChat after its fetch
HookTranscribed(w, f, c, eager) ==
    LET voiceTranscriptionFailed == <<"I could not transcribe that.">>
        text == IF c.json # NoJson /\ IsString(c.json.content)
                THEN Trim(c.json.content) ELSE << >>
        thrown == IF c.threw THEN FailedToFetch
                  ELSE IF ~c.ok THEN extractErrorMessage(c)
                  ELSE IF c.json = NoJson
                  THEN <<"The transcription service returned an empty response.">>
                  ELSE IF text = << >> THEN voiceTranscriptionFailed
                  ELSE Null
        Others(m) == m.id # f.id
        removed == [w EXCEPT !.ui.messages = SelectSeq(@, Others)]
        sent == sendMessage(removed, text, f.then = "pending", eager, "voice")
    IN IF thrown = Null
       THEN IF sent = removed THEN [sent EXCEPT !.ui.transcribing = FALSE] ELSE sent
       ELSE [w EXCEPT !.ui.messages =
                updateMessage(@, f.id, voiceTranscriptionFailed, "error", Undefined),
                      !.ui.error = normaliseErrorMessage(thrown),
                      !.ui.transcribing = FALSE]

\* transcribeAudio of the speaking screen after its fetch
SpeechTranscribed(w, f, c) ==
    LET thrown == IF c.threw THEN FailedToFetch
                  ELSE IF ~c.ok \/ c.json = NoJson THEN extractErrorMessage(c)
                  ELSE Null
        transcript == IF IsString(c.json.content) THEN Trim(c.json.content) ELSE << >>
    IN IF thrown # Null
       THEN [w EXCEPT !.ui.error = normaliseErrorMessage(thrown), !.ui.transcribing = FALSE]
       ELSE IF transcript = << >>
       THEN [w EXCEPT !.ui.error = <<"No speech was detected in the recording.">>,
                      !.ui.transcribing = FALSE]
       ELSE Awaited(evaluateSpeech(w, transcript))

----------------------------------------------------------------------------
(* The client screens: actions *)

\* state set after the component is gone is dropped; the refs are kept
Commit(w) ==
    /\ ui' = IF ui.mounted THEN w.ui
             ELSE [ui EXCEPT !.history = w.ui.history,
                             !.recorderRef = w.ui.recorderRef,
                             !.streamRef = w.ui.streamRef]
    /\ flights' = w.flights
    /\ mic' = w.mic
    /\ UNCHANGED <<disk, procs>>

\* one more user action on the screen
Pressed == [World EXCEPT !.ui.presses = @ + 1]

\* the buttons can be pressed while the screen is there and no file dialog
\* of the browser is open over it
CanPress ==
    /\ ui.mounted
    /\ ui.presses < MaxPresses
    /\ \A i \in DOMAIN flights : flights[i].kind # "picker"

Quiet == UNCHANGED server

\* the send button, enabled as the screen renders it
SendPress(inputValue, eager) ==
    /\ CanPress
    /\ Trim(inputValue) # << >>
    /\ ~ui.busy
    /\ \/ /\ ui.screen = "hook"
          /\ ~ui.transcribing /\ ~ui.recording
          /\ Commit(sendMessage(Pressed, inputValue, ui.busy, eager, "none"))
       \/ /\ ui.screen = "chat"
          /\ Commit(sendMessageChatScreen(Pressed, inputValue))
       \/ /\ ui.screen = "coach"
          /\ Commit(sendTextMessage(Pressed, inputValue))
       \/ /\ ui.screen = "speech"
          /\ ~ui.transcribing /\ ~ui.recording
          /\ Commit(handleSendText(Pressed, inputValue))
    /\ Quiet

\* a suggestion of the hook's component: handleQuickReply
QuickReply(suggestion, eager) ==
    /\ CanPress
    /\ ui.screen = "hook"
    /\ ~ui.busy /\ ~ui.transcribing
    /\ Commit(sendMessage(Pressed, suggestion, ui.busy, eager, "none"))
    /\ Quiet

\* the file button of HomeScreen opens the picker
FilePress ==
    /\ CanPress
    /\ ui.screen = "home"
    /\ ~(ui.busy \/ ui.recording)
    /\ Commit([Pressed EXCEPT !.flights =
                  Append(@, Flight("picker", 0, << >>, << >>, << >>, "none"))])
    /\ Quiet

\* handleFileChange of HomeScreen: a file is chosen, or none
FileChange(i, fileName) ==
    /\ i \in DOMAIN flights
    /\ flights[i].kind = "picker"
    /\ LET w == [World EXCEPT !.flights = RemoveAt(@, i)] IN
         Commit(IF fileName = << >> THEN w ELSE sendBlobForTranscription(w, fileName))
    /\ Quiet

\* a chat request settles: the handler of the API runs, the screen reads
\* its answer
ChatSettled(i, o) ==
    /\ i \in DOMAIN flights
    /\ flights[i].kind = "chat"
    /\ LET f == flights[i]
           w == [World EXCEPT !.flights = RemoveAt(@, i)]
           c == Answer(f.sent,
                       IF ui.screen = "coach" THEN "0.4"
                       ELSE IF ui.screen = "speech" THEN "0.3" ELSE "0.6",
                       IF ui.screen \in {"coach", "speech"}
                       THEN "{type:json_object}" ELSE "undefined",
                       o)
       IN /\ Commit(IF ui.screen = "hook" THEN HookChatSettled(w, f, c)
                    ELSE PlaceholderSettled(w, f, c))
          /\ calls' = c.calls
    /\ UNCHANGED <<envKey, envToken, resolver, storage, clock, pc, req, resp, resolved>>

\* a transcription request settles
TranscribeSettled(i, c, eager) ==
    /\ i \in DOMAIN flights
    /\ flights[i].kind = "transcribe"
    /\ LET f == flights[i]
           w == [World EXCEPT !.flights = RemoveAt(@, i)]
       IN Commit(IF ui.screen = "hook" THEN HookTranscribed(w, f, c, eager)
                 ELSE IF ui.screen = "home" THEN HomeTranscribed(w, f, c)
                 ELSE SpeechTranscribed(w, f, c))
    /\ Quiet

----------------------------------------------------------------------------
(* The client screens: recording *)

\* getUserMedia resolved: a stream with live tracks and a MediaRecorder
\* started on it; seen is the pending flag the handlers of its closure hold
Stream(seen) == [live |-> TRUE, rec |-> "recording", seen |-> seen]

\* recorder.stop(): inactive at once, the stop event dispatched later
StopRecorder(w, n) ==
    [w EXCEPT !.mic.streams[n].rec = "inactive",
              !.flights = Append(@, Flight("onstop", n, << >>, << >>, << >>, "none"))]

\* stream.getTracks().forEach((track) => track.stop())
StopTracks(w, n) == [w EXCEPT !.mic.streams[n].live = FALSE]

AwaitMicrophone(w) ==
    [w EXCEPT !.flights =
        Append(@, Flight("getUserMedia", 0, << >>, << >>, << >>,
                         IF w.ui.busy THEN "pending" ELSE "free"))]

\* handleVoicePress of useAssistantChat, with its stopRecording
handleVoicePress(w) ==
    LET n == w.ui.recorderRef IN
    IF w.ui.transcribing THEN w
    ELSE IF w.ui.recording
    THEN IF n = 0 \/ w.mic.streams[n].rec = "inactive" THEN w
         ELSE [StopRecorder(w, n) EXCEPT !.ui.recording = FALSE]
    ELSE AwaitMicrophone(w)

\* the record button of HomeScreen: stopRecording or startRecording
PressRecordHome(w) ==
    LET n == w.ui.recorderRef
        stopped == IF w.mic.streams[n].rec # "inactive" THEN StopRecorder(w, n) ELSE w
        released == IF w.ui.streamRef # 0
                    THEN [StopTracks(stopped, w.ui.streamRef) EXCEPT !.ui.streamRef = 0]
                    ELSE stopped
    IN IF w.ui.recording
       THEN IF n = 0 THEN w ELSE [released EXCEPT !.ui.recording = FALSE]
       ELSE AwaitMicrophone(w)

\* stopMedia of the language coach
stopMedia(w) ==
    LET cleared == [w EXCEPT !.ui.recorderRef = 0] IN
    IF w.ui.streamRef # 0
    THEN [StopTracks(cleared, w.ui.streamRef) EXCEPT !.ui.streamRef = 0]
    ELSE cleared

\* toggleRecording of the language coach: stopRecording or startRecording
toggleRecording(w) ==
    LET n == w.ui.recorderRef IN
    IF w.ui.recording
    THEN stopMedia(IF n # 0 THEN StopRecorder(w, n)
                   ELSE [w EXCEPT !.ui.recording = FALSE])
    ELSE IF w.ui.busy THEN w
    ELSE AwaitMicrophone([w EXCEPT !.ui.error = Null])

\* toggleRecording of the speaking screen: stopRecording up to
\* stopAndUnloadAsync, or startRecording up to the permission
toggleRecordingSpeech(w) ==
    LET n == w.ui.recorderRef IN
    IF w.ui.recording
    THEN IF n = 0 THEN w
         ELSE [w EXCEPT !.ui.recording = FALSE,
                        !.flights = Append(@, Flight("unload", n, << >>, << >>, << >>, "none"))]
    ELSE IF w.ui.busy \/ w.ui.transcribing THEN w
    ELSE AwaitMicrophone([w EXCEPT !.ui.error = Null])

\* the rest of the start handler once the microphone is granted
Granted(w, f) ==
    LET n == Len(w.mic.streams) + 1
        started == [w EXCEPT !.mic.streams = Append(@, Stream(f.then)),
                             !.ui.recorderRef = n,
                             !.ui.recording = TRUE]
    IN IF w.ui.screen = "speech"
       THEN \* expo-av prepares one Recording at a time
            IF \E k \in DOMAIN w.mic.streams : w.mic.streams[k].rec = "recording"
            THEN [w EXCEPT !.ui.error = <<"Only one Recording object can be prepared at a given time.">>]
            ELSE started
       ELSE IF w.ui.screen = "coach"
       THEN [started EXCEPT !.ui.streamRef = n]
       ELSE [started EXCEPT !.ui.streamRef = n, !.ui.error = Null]

\* the catch of the start handler when the microphone is refused
Refused(w) ==
    LET message == <<"Permission denied">> IN
    IF w.ui.screen = "coach"
    THEN [stopMedia(w) EXCEPT !.ui.error = normaliseErrorMessage(message)]
    ELSE IF w.ui.screen = "home"
    THEN [w EXCEPT !.ui.error = <<"We could not access the microphone on this device.">>]
    ELSE [w EXCEPT !.ui.error = normaliseErrorMessage(message)]

\* handleRecordingStop of the language coach, up to encodeBlobToDataUrl
handleRecordingStop(w, hasBlob) ==
    LET userMessage == Message(w.ui.nextId, "user", <<"Spoken practice clip">>, "none")
        assistantMessage == Message(w.ui.nextId + 1, "assistant",
                                    <<"Evaluating pronunciation...">>, "pending")
        stopped == [w EXCEPT !.ui.recording = FALSE]
    IN IF ~hasBlob THEN stopped
       ELSE [stopped EXCEPT !.ui.messages = @ \o <<userMessage, assistantMessage>>,
                            !.ui.nextId = @ + 2,
                            !.flights = Append(@, Flight("encode", assistantMessage.id,
                                                         << >>, << >>, << >>, "none"))]

\* recorder.onstop by screen; chunks says whether any data was recorded
OnStop(w, n, chunks) ==
    LET screen == w.ui.screen
        released == IF w.ui.streamRef # 0
                    THEN [StopTracks(w, w.ui.streamRef) EXCEPT !.ui.streamRef = 0]
                    ELSE w
    IN IF screen = "hook"
       THEN IF ~chunks THEN [released EXCEPT !.ui.error = <<"The recording was too short.">>]
            ELSE transcribeBlob(released, w.mic.streams[n].seen = "pending")
       ELSE IF screen = "home"
       THEN [StopTracks(sendBlobForTranscription(w, <<"recording.webm">>), n)
                EXCEPT !.ui.streamRef = 0]
       ELSE handleRecordingStop(w, chunks)

\* stopRecording of the speaking screen after stopAndUnloadAsync, then
\* transcribeAudio up to its fetch
Unloaded(w, n, uri) ==
    LET done == [w EXCEPT !.mic.streams[n].rec = "inactive",
                          !.mic.streams[n].live = FALSE,
                          !.ui.recorderRef = 0]
    IN IF ~uri THEN [done EXCEPT !.ui.error = <<"We could not access the recorded file.">>]
       ELSE [done EXCEPT !.ui.transcribing = TRUE, !.ui.error = Null,
                         !.flights = Append(@, Flight("transcribe", 0, << >>, << >>, << >>, "none"))]

\* the cleanup of the effect that runs when the screen unmounts
Cleanup(w) ==
    LET n == w.ui.recorderRef
        screen == w.ui.screen
        stopped == IF n # 0 /\ w.mic.streams[n].rec # "inactive"
                   THEN IF screen = "speech"
                        THEN [w EXCEPT !.mic.streams[n].rec = "inactive",
                                       !.mic.streams[n].live = FALSE]
                        ELSE StopRecorder(w, n)
                   ELSE w
        released == IF w.ui.streamRef # 0 /\ screen # "speech"
                    THEN StopTracks(stopped, w.ui.streamRef)
                    ELSE stopped
    IN IF screen = "hook" THEN [released EXCEPT !.ui.streamRef = 0] ELSE released

\* the record button, enabled as the screen renders it
RecordPress ==
    /\ CanPress
    /\ ~ui.busy
    /\ \/ /\ ui.screen = "hook"
          /\ ~ui.transcribing
          /\ Commit(handleVoicePress(Pressed))
       \/ /\ ui.screen = "home"
          /\ Commit(PressRecordHome(Pressed))
       \/ /\ ui.screen = "coach"
          /\ Commit(toggleRecording(Pressed))
       \/ /\ ui.screen = "speech"
          /\ ~ui.transcribing
          /\ Commit(toggleRecordingSpeech(Pressed))
    /\ Quiet

\* getUserMedia, or the permission request of expo-av, settles
MicrophoneSettled(i, granted) ==
    /\ i \in DOMAIN flights
    /\ flights[i].kind = "getUserMedia"
    /\ LET w == [World EXCEPT !.flights = RemoveAt(@, i)] IN
         Commit(IF granted THEN Granted(w, flights[i]) ELSE Refused(w))
    /\ Quiet

\* the stop event of a MediaRecorder is dispatched
RecorderStopped(i, chunks) ==
    /\ i \in DOMAIN flights
    /\ flights[i].kind = "onstop"
    /\ Commit(OnStop([World EXCEPT !.flights = RemoveAt(@, i)], flights[i].id, chunks))
    /\ Quiet

\* stopAndUnloadAsync of the speaking screen settles
RecordingUnloaded(i, uri) ==
    /\ i \in DOMAIN flights
    /\ flights[i].kind = "unload"
    /\ Commit(Unloaded([World EXCEPT !.flights = RemoveAt(@, i)], flights[i].id, uri))
    /\ Quiet

\* encodeBlobToDataUrl of the language coach settles
Encoded(i, ok) ==
    /\ i \in DOMAIN flights
    /\ flights[i].kind = "encode"
    /\ LET f == flights[i]
           w == [World EXCEPT !.flights = RemoveAt(@, i)]
       IN Commit(IF ok THEN submitInteraction(w, <<"spoken clip">>, f.id)
                 ELSE [w EXCEPT !.ui.messages =
                          updateMessage(@, f.id,
                                        normaliseErrorMessage(<<"Failed to read the audio.">>),
                                        "error", Undefined)])
    /\ Quiet

\* the user leaves the screen
Unmount ==
    /\ ui.mounted
    /\ LET w == Cleanup(World) IN
         /\ ui' = [w.ui EXCEPT !.mounted = FALSE]
         /\ flights' = w.flights
         /\ mic' = w.mic
    /\ UNCHANGED <<disk, procs>>
    /\ Quiet

InitClient ==
    /\ envKey \in {<<"k">>, Undefined}
    /\ envToken = Undefined
    /\ resolver = "env"
    /\ storage = NoFile
    /\ clock = 0
    /\ pc = "idle"
    /\ req = NoRequest
    /\ resp = NoResponse
    /\ calls = << >>
    /\ resolved = NotCalled
    /\ disk = NoDisk
    /\ procs = << >>
    /\ ui \in {Screen0(s) : s \in Screens}
    /\ flights = << >>
    /\ mic = NoMic

NextClient ==
    \/ \E t \in {Hi, <<" ">> \o Hi}, eager \in BOOLEAN : SendPress(t, eager)
    \/ \E t \in {Hi, Hello}, eager \in BOOLEAN : QuickReply(t, eager)
    \/ FilePress
    \/ \E i \in DOMAIN flights, n \in {<< >>, <<"clip.mp3">>} : FileChange(i, n)
    \/ \E i \in DOMAIN flights, o \in ClientOutcomes \cup {Unreached} : ChatSettled(i, o)
    \/ \E i \in DOMAIN flights, c \in TranscribeAnswers, eager \in BOOLEAN :
          TranscribeSettled(i, c, eager)
    \/ RecordPress
    \/ \E i \in DOMAIN flights, granted \in BOOLEAN : MicrophoneSettled(i, granted)
    \/ \E i \in DOMAIN flights, chunks \in BOOLEAN : RecorderStopped(i, chunks)
    \/ \E i \in DOMAIN flights, uri \in BOOLEAN : RecordingUnloaded(i, uri)
    \/ \E i \in DOMAIN flights, ok \in BOOLEAN : Encoded(i, ok)
    \/ Unmount

SpecClient == InitClient /\ [][NextClient]_vars

----------------------------------------------------------------------------
(* C23: the round trip of a chat message *)

\* the step in which the chat request of flight i settles with the
\* provider's 200 and a completion whose content is "hello"
HelloArrives(i) ==
    /\ ui.mounted
    /\ flights[i].kind = "chat"
    /\ flights[i].text = Hi
    /\ flights' = RemoveAt(flights, i)
    /\ calls' # << >>
    /\ calls'[1].reply.status = 200
    /\ calls'[1].reply.body = "json"
    /\ calls'[1].reply.data = Completion(Hello)

\* the assistant message of the exchange after the step: the placeholder of
\* ChatScreen, the message the hook appends
ReplyShown(i) ==
    LET last == ui'.messages[Len(ui'.messages)]
        Mine(m) == m.id = flights[i].id
        mine == SelectSeq(ui'.messages, Mine)
        shown == IF ui.screen = "hook" THEN last ELSE mine[1]
    IN shown.role = "assistant" /\ shown.status = "none" /\ shown.text = Hello

\* C23: when the user sends "hi" from the hook or from ChatScreen and the
\* provider answers 200 with a completion whose content is "hello", the
\* request that reached the provider contains {role: "user", content: "hi"}
\* and the assistant message of the exchange ends resolved with the text
\* "hello".
C23_RoundTrip ==
    [][\A i \in DOMAIN flights :
          (ui.screen \in {"hook", "chat"} /\ HelloArrives(i)) =>
              /\ \E k \in DOMAIN calls'[1].payload.messages :
                    calls'[1].payload.messages[k] = [role |-> "user", content |-> Hi]
              /\ ReplyShown(i)]_vars

----------------------------------------------------------------------------
(* C24: the assistant placeholder of an exchange *)

IsRequest(f) == f.kind \in {"chat", "transcribe"}

\* every request in flight has its placeholder in the list: an assistant
\* message tagged pending that follows a user message
HasPlaceholder(u, fs) ==
    \A i \in DOMAIN fs :
        IsRequest(fs[i]) =>
            \E k \in DOMAIN u.messages :
                /\ u.messages[k].id = fs[i].id
                /\ u.messages[k].role = "assistant"
                /\ u.messages[k].status = "pending"
                /\ k > 1
                /\ u.messages[k - 1].role = "user"

\* the step in which request i settles changes the placeholder of that
\* request, to resolved or to error, and no other message
SettlesPlaceholder(i) ==
    (IsRequest(flights[i]) /\ flights' = RemoveAt(flights, i)) =>
        /\ Len(ui'.messages) = Len(ui.messages)
        /\ \A k \in DOMAIN ui.messages :
              IF ui.messages[k].id = flights[i].id
              THEN /\ ui'.messages[k].id = ui.messages[k].id
                   /\ ui.messages[k].status = "pending"
                   /\ ui'.messages[k].status \in {"none", "error"}
              ELSE ui'.messages[k] = ui.messages[k]

\* a message that is not pending does not become pending
StaysSettled ==
    \A k \in DOMAIN ui.messages \cap DOMAIN ui'.messages :
        (ui.messages[k].id = ui'.messages[k].id /\ ui.messages[k].status # "pending")
            => ui'.messages[k].status # "pending"

\* with no request in flight (and no clip being encoded for one) no message
\* is pending
IdleMeansSettled(u, fs) ==
    (\A i \in DOMAIN fs : ~IsRequest(fs[i]) /\ fs[i].kind # "encode") =>
        \A k \in DOMAIN u.messages : u.messages[k].status # "pending"

\* C24: on every screen a send appends the user's message and one assistant
\* placeholder tagged pending; when the request settles that placeholder, and
\* no other message, becomes resolved or error, once; it never becomes pending
\* again; and while no request is in flight no message is pending.
C24_Placeholder ==
    [][ui'.mounted =>
          /\ HasPlaceholder(ui', flights')
          /\ \A i \in DOMAIN flights : SettlesPlaceholder(i)
          /\ StaysSettled
          /\ IdleMeansSettled(ui', flights')]_vars

----------------------------------------------------------------------------
(* C25: what a failure shows *)

\* message k is what the step that settles request i leaves tagged error:
\* the placeholder of the request, or a message the step appended
FailureShown(i, k) ==
    /\ IsRequest(flights[i])
    /\ flights' = RemoveAt(flights, i)
    /\ ui'.messages[k].status = "error"
    /\ \/ ui'.messages[k].id = flights[i].id
       \/ k \notin DOMAIN ui.messages

\* C25: after a request fails, the text of the placeholder tagged error is
\* the message the error banner of the page shows.
C25_FailureText ==
    [][ui'.mounted =>
          \A i \in DOMAIN flights, k \in DOMAIN ui'.messages :
              FailureShown(i, k) => ui'.messages[k].text = ui'.error]_vars

----------------------------------------------------------------------------
(* C26: one request at a time *)

InFlight == {i \in DOMAIN flights : IsRequest(flights[i])}

\* C26: on every screen at most one request is in flight at any time: a
\* send press, quick reply, file selection or recording stop that arrives
\* while the busy flag is set starts none.
C26_OneInFlight == ui.mounted => Cardinality(InFlight) <= 1

----------------------------------------------------------------------------
(* C30: the conversation history of the language coach *)

\* user turn, assistant reply, user turn, assistant reply, ...
Alternates(history) ==
    /\ Len(history) % 2 = 0
    /\ \A k \in DOMAIN history :
          history[k].role = IF k % 2 = 1 THEN "user" ELSE "assistant"

\* C30: whenever the language coach has no request in flight, its
\* conversation history is the user turns and assistant replies of the
\* exchanges that succeeded, in pairs, the roles alternating.
C30_History ==
    (ui.screen = "coach" /\ InFlight = {}) => Alternates(ui.history)

----------------------------------------------------------------------------
(* C27, C28: the microphone *)

Recording == {n \in DOMAIN mic.streams : mic.streams[n].rec = "recording"}
Live == {n \in DOMAIN mic.streams : mic.streams[n].live}

\* nothing of the recording lifecycle is still to run: no permission is
\* awaited, no stop event or unload is outstanding
Settled ==
    \A i \in DOMAIN flights : flights[i].kind \notin {"getUserMedia", "onstop", "unload"}

\* C27: once the user has stopped the recording or left the screen, and
\* whatever was awaited at that point has run, every microphone stream that
\* was acquired has its tracks stopped and no recorder is still recording.
C27_Released ==
    (Settled /\ (~ui.mounted \/ ~ui.recording)) => (Live = {} /\ Recording = {})

\* C28: at any time at most one recorder is recording and at most one
\* microphone stream is held, whatever the sequence of record presses.
C28_OneRecorder == Cardinality(Recording) <= 1 /\ Cardinality(Live) <= 1

----------------------------------------------------------------------------
(* C29: what precedes a provider call of a token-guarded handler *)

\* the provider key the deployment holds, from the environment or the file
HeldKeys == {k \in {envKey, storage.apiKey} : Truthy(k)}

====
